---- MODULE Spec2Model ----
(***************************************************************************)
(* Windscribe desktop client, connection orchestration of Engine           *)
(* (src/client/engine/engine/engine.cpp).                                  *)
(*                                                                         *)
(* Two threads act on the state.  The caller's thread (the GUI) runs the   *)
(* public methods of Engine (connectClick, disconnectClick, ...): they     *)
(* take Engine::mutex_, touch the ConnectStateController directly and post *)
(* the ...Impl slot to the Engine's thread.  The Engine's thread runs the  *)
(* posted slots in FIFO order and the handlers of the signals of the       *)
(* ConnectionManager and of the ApiResourcesManager; those handlers do not *)
(* take Engine::mutex_.  Every handler is one action.                      *)
(*                                                                         *)
(* ConnectStateController and ConnectionManager are not part of the        *)
(* sources at hand; they are modelled from their contract (sections 4.1    *)
(* and 4.2 of the specification).                                          *)
(***************************************************************************)
EXTENDS Integers, Sequences, FiniteSets

\* Bounds of the model: posted slots waiting in the Engine's event queue, and
\* commands the caller issues in one run.
MaxQueue == 2
MaxCommands == 3

\* Bound of the model: calls of cleanup() in one run.
MaxCleanupCalls == 2

\* Bound of the model: signOut commands in one run.
MaxSignOuts == 1

\* ------------------------------------------------------------------ data

\* LocationID values: an account location, a custom OpenVPN config, a location
\* without a selected node and an id that the locations model does not know.
Locations == {"A", "K", "N", "X"}

\* One more LocationID value: a static IPs location, and the ports of its
\* static IPs.
StaticIpsLocation == "S"

StaticIpsPorts == {"port1", "port2"}

isCustomConfigsLocation(loc) == loc = "K"

isStaticIpsLocation(loc) == loc = StaticIpsLocation

\* connectionManager_->getStatisIps(): the ports of the connection's location.
getStatisIps(loc) == IF isStaticIpsLocation(loc) THEN StaticIpsPorts ELSE {}

\* locationsModel_->getMutableLocationInfoById(id) is null for an unknown id.
LocationExists(loc) == loc \in {"A", "K", "N", StaticIpsLocation}

\* bli->isExistSelectedNode()
isExistSelectedNode(loc) == loc \in {"A", "K", StaticIpsLocation}

\* networkOrSsid values: none, and two networks.
Networks == {"", "net1", "net2"}

\* CONNECT_ERROR values that the ConnectionManager reports.
DriverErrors == {"AUTH_ERROR", "PRIV_KEY_PASSWORD_ERROR", "OTHER_ERROR"}

\* ConnectionSettings values: the automatic one (protocol UNINITIALIZED, port
\* 0, isAutomatic), which stands for "no override", and an explicit protocol
\* and port.  NetworkSettings stands for
\* engineSettings_.connectionSettingsForNetworkInterface(networkOrSsid).
AutomaticSettings == "automatic"

ExplicitSettings == "wireguard:443"

NetworkSettings == "network"

\* types::Protocol values.
Protocols == {"openvpn", "ikev2", "wireguard"}

isIkev2Protocol(protocol) == protocol = "ikev2"

isWireGuardProtocol(protocol) == protocol = "wireguard"

\* The adapter has the MTU that the driver gave it.
DefaultMtu == -1

\* The advanced parameter of an MTU offset is not given.
\* firewallExceptions_ after construction.
NoExceptions ==
    [hostIPs |-> {}, locationsPingIps |-> {}, customConfigPingIps |-> {},
     proxyIP |-> "", customRemoteIp |-> ""]

NoMtuOffset == [given |-> FALSE, offset |-> 0]

\* The header overhead of the protocols.
MTU_OFFSET_WG == 80

MTU_OFFSET_IKEV2 == 80

\* The kinds of credential that a custom config may ask the user for.
CredKinds == {"username", "privkey"}

VARIABLES
    state,          \* connectStateController_: CONNECT_STATE
    stReason,       \* connectStateController_: DISCONNECT_REASON of Disconnected
    stErr,          \* connectStateController_: CONNECT_ERROR of Disconnected
    lastSet,        \* the last state change asked of the controller: <<from, to>>
    queue,          \* the Engine thread's posted slots, oldest first
    guiPc,          \* where the caller's thread stands inside disconnectClick
    locationId_,    \* Engine::locationId_
    isBlockConnect_,\* Engine::isBlockConnect_
    senderSource,   \* connectionManager_->property("senderSource")
    cm,             \* ConnectionManager: idle / connecting / waitUser / connected / disconnecting
    cmLoc,          \* ConnectionManager: the location of its attempt
    cmEmitAuth,     \* ConnectionManager: emitAuthErrorOnFailure of its attempt
    fw,             \* firewall: off / pre (rules of the connecting state) / conn (rules of the connected state)
    fwMode,         \* engineSettings_.firewallSettings().mode
    fwWhen,         \* engineSettings_.firewallSettings().when
    dns,            \* DnsServersConfiguration: disc / conn
    connectingIp,   \* firewallExceptions_: connecting ip and dns servers are set
    credsSub,       \* serverCredentialsFetched is connected to the Engine's slot
    fetching,       \* a fetchServerCredentials request is under way
    pendingUi,      \* the credential request the UI has not answered yet
    needReconnect,  \* Engine::isNeedReconnectAfterRequestAuth_
    stored,         \* customOvpnAuthCredentialsStorage_: kinds stored for the custom config
    firedBefore,    \* "Automatic enable firewall before connection" ran since the last connect command
    firedAfter,     \* "Automatic enable firewall after connection" ran since the last connect command
    autoRetries,    \* connects started by onApiResourcesManagerServerCredentialsFetched in the current attempt
    rc,             \* the course of a connect command issued while Connected: phase, target, counts
    nCommands,      \* commands the caller has issued
    signedOut,      \* signOutImplAfterDisconnect ran: locationsModel_ cleared, apiResourcesManager_ reset
    curNetwork,     \* networkDetectionManager_: networkOrSsid of the current interface
    cmSettingsNetwork, \* ConnectionManager: the network whose connection settings it was last given
    whitelist,      \* firewall: the ports whitelisted for a static IPs location
    helperFails,    \* helper_->sendConnectStatus(true, ...) returns false
    tunnelTests,    \* ConnectionManager: the tunnel tests are under way
    connectionSettingsOverride_, \* Engine::connectionSettingsOverride_
    packetSize_,    \* Engine::packetSize_: isAutomatic, mtu
    extraConfig,    \* ExtraConfig: the MTU offsets of the advanced parameters (given, offset)
    vpnAdapter,     \* the VPN adapter: protocol (connectionManager_->currentProtocol()), mtu (DefaultMtu or the value set)
    cmSettings,     \* ConnectionManager: the connection settings its attempt was started with
    firewallExceptions_, \* Engine::firewallExceptions_: hostIPs, locationsPingIps, customConfigPingIps, proxyIP, customRemoteIp
    isAllowLanTraffic, \* engineSettings_.isAllowLanTraffic()
    emergency,      \* state: emergencyConnectStateController_; ctl: EmergencyController idle / connecting / connected / disconnecting
    apiResourcesManager_, \* st: none (null) / pending (not logged in) / in (logged in); loadFromSettings: the settings hold a session
    hist,           \* what has happened so far: counts and marks the claims refer to
    initCleanupConnected, \* the signal initCleanup is connected to cleanupImpl
    cleanupQueue,   \* the arguments of the posted cleanupImpl calls, oldest first
    cleanupStack,   \* the cleanupImpl calls standing inside connectionManager_->blockingDisconnect()
    isCleanupFinished_, \* Engine::isCleanupFinished_
    components,     \* the owned components: alive / deleted
    thread,         \* the Engine's thread: running / quit / crashed
    firewallOnBoot, \* what enableFirewallOnBoot was last given
    vpnShare,       \* wifi or proxy sharing is on
    teardown,       \* how often each part of the teardown ran, and log: the steps in the order they ran
    nCleanupCalls   \* calls of cleanup() made

vars == <<state, stReason, stErr, lastSet, queue, guiPc, locationId_, isBlockConnect_,
          senderSource, cm, cmLoc, cmEmitAuth, fw, fwMode, fwWhen, dns, connectingIp,
          credsSub, fetching, pendingUi, needReconnect, stored, firedBefore, firedAfter,
          autoRetries, rc, nCommands, signedOut, curNetwork, cmSettingsNetwork, whitelist,
          helperFails, tunnelTests, connectionSettingsOverride_, cmSettings,
          packetSize_, extraConfig, vpnAdapter, firewallExceptions_, isAllowLanTraffic,
          emergency, apiResourcesManager_, hist,
          initCleanupConnected, cleanupQueue, cleanupStack,
          isCleanupFinished_, components, thread, firewallOnBoot, vpnShare, teardown,
          nCleanupCalls>>

cleanupVars == <<initCleanupConnected, cleanupQueue, cleanupStack, isCleanupFinished_,
                 components, thread, firewallOnBoot, vpnShare, teardown, nCleanupCalls>>

\* The state as one record: the handlers below are functions from record to record.
Cur ==
    [state |-> state, stReason |-> stReason, stErr |-> stErr, lastSet |-> lastSet,
     queue |-> queue, guiPc |-> guiPc, locationId_ |-> locationId_,
     isBlockConnect_ |-> isBlockConnect_, senderSource |-> senderSource,
     cm |-> cm, cmLoc |-> cmLoc, cmEmitAuth |-> cmEmitAuth, fw |-> fw,
     fwMode |-> fwMode, fwWhen |-> fwWhen, dns |-> dns, connectingIp |-> connectingIp,
     credsSub |-> credsSub, fetching |-> fetching, pendingUi |-> pendingUi,
     needReconnect |-> needReconnect, stored |-> stored, firedBefore |-> firedBefore,
     firedAfter |-> firedAfter, autoRetries |-> autoRetries, rc |-> rc,
     nCommands |-> nCommands, signedOut |-> signedOut,
     curNetwork |-> curNetwork, cmSettingsNetwork |-> cmSettingsNetwork,
     whitelist |-> whitelist, helperFails |-> helperFails,
     tunnelTests |-> tunnelTests,
     connectionSettingsOverride_ |-> connectionSettingsOverride_,
     cmSettings |-> cmSettings,
     packetSize_ |-> packetSize_, extraConfig |-> extraConfig, vpnAdapter |-> vpnAdapter,
     firewallExceptions_ |-> firewallExceptions_, isAllowLanTraffic |-> isAllowLanTraffic,
     emergency |-> emergency, apiResourcesManager_ |-> apiResourcesManager_,
     hist |-> IF hist.watch
              THEN [hist EXCEPT !.discReason = "", !.discTag = "", !.gotIp = FALSE,
                                !.err = "", !.fwd = ""]
              ELSE hist]

Commit(r) ==
    /\ state' = r.state
    /\ stReason' = r.stReason
    /\ stErr' = r.stErr
    /\ lastSet' = r.lastSet
    /\ queue' = r.queue
    /\ guiPc' = r.guiPc
    /\ locationId_' = r.locationId_
    /\ isBlockConnect_' = r.isBlockConnect_
    /\ senderSource' = r.senderSource
    /\ cm' = r.cm
    /\ cmLoc' = r.cmLoc
    /\ cmEmitAuth' = r.cmEmitAuth
    /\ fw' = r.fw
    /\ fwMode' = r.fwMode
    /\ fwWhen' = r.fwWhen
    /\ dns' = r.dns
    /\ connectingIp' = r.connectingIp
    /\ credsSub' = r.credsSub
    /\ fetching' = r.fetching
    /\ pendingUi' = r.pendingUi
    /\ needReconnect' = r.needReconnect
    /\ stored' = r.stored
    /\ firedBefore' = r.firedBefore
    /\ firedAfter' = r.firedAfter
    /\ autoRetries' = r.autoRetries
    /\ rc' = r.rc
    /\ nCommands' = r.nCommands
    /\ signedOut' = r.signedOut
    /\ curNetwork' = r.curNetwork
    /\ cmSettingsNetwork' = r.cmSettingsNetwork
    /\ whitelist' = r.whitelist
    /\ helperFails' = r.helperFails
    /\ tunnelTests' = r.tunnelTests
    /\ connectionSettingsOverride_' = r.connectionSettingsOverride_
    /\ cmSettings' = r.cmSettings
    /\ packetSize_' = r.packetSize_
    /\ extraConfig' = r.extraConfig
    /\ vpnAdapter' = r.vpnAdapter
    /\ firewallExceptions_' = r.firewallExceptions_
    /\ isAllowLanTraffic' = r.isAllowLanTraffic
    /\ emergency' = r.emergency
    /\ apiResourcesManager_' = r.apiResourcesManager_
    /\ hist' = r.hist
    /\ firewallOnBoot' = IF r.hist.nSignOutFinished > hist.nSignOutFinished
                         THEN FALSE
                         ELSE firewallOnBoot
    /\ UNCHANGED <<initCleanupConnected, cleanupQueue, cleanupStack, isCleanupFinished_,
                    components, thread, vpnShare, teardown, nCleanupCalls>>

\* ------------------------------------------- ConnectStateController (4.1)

\* The transitions of the state machine: section 4.1, and Connecting ->
\* Disconnecting of section 5.
LegalTransitions ==
    { <<"Disconnected", "Connecting">>, <<"Connecting", "Connected">>,
      <<"Connected", "Disconnecting">>, <<"Disconnecting", "Disconnected">>,
      <<"Connecting", "Disconnected">>, <<"Connected", "Connecting">>,
      <<"Connecting", "Disconnecting">> }

\* A set...State call: a legal change is made (and stateChanged emitted), a call
\* for the current state changes nothing, any other call is a contract violation
\* and leaves the state as it is.  lastSet keeps what was asked.
setState(s, to, reason, err) ==
    LET legal == <<s.state, to>> \in LegalTransitions
    IN  [s EXCEPT !.state = IF legal THEN to ELSE @,
                  !.stReason = IF legal THEN reason ELSE @,
                  !.stErr = IF legal THEN err ELSE @,
                  !.lastSet = IF s.state # to THEN <<s.state, to>> ELSE @,
                  !.rc.sawDisc = @ \/ (s.rc.ph \in {"issued", "disc"} /\ legal
                                        /\ to \in {"Disconnecting", "Disconnected"})]

setConnectingState(s) == setState(s, "Connecting", "NONE", "NO_CONNECT_ERROR")
setConnectedState(s) == setState(s, "Connected", "NONE", "NO_CONNECT_ERROR")
setDisconnectingState(s) == setState(s, "Disconnecting", "NONE", "NO_CONNECT_ERROR")
setDisconnectedState(s, reason, err) == setState(s, "Disconnected", reason, err)

\* ----------------------------------------------- ConnectionManager (4.2)

isDisconnected(s) == s.cm = "idle"

\* clickDisconnect: graceful teardown of the active connection, a no-op when
\* no connection is active.
clickDisconnect(s) ==
    [s EXCEPT !.cm = IF @ \in {"connecting", "waitUser", "connected"} THEN "disconnecting" ELSE @,
              !.tunnelTests = FALSE,
              !.rc.nDisc = IF s.rc.ph = "issued" /\ @ < 2 THEN @ + 1 ELSE @]

\* clickConnect: starts the attempt.
clickConnect(s, loc, bEmitAuthError) ==
    [s EXCEPT !.cm = "connecting", !.cmLoc = loc, !.cmEmitAuth = bEmitAuthError,
              !.rc.ph = IF @ = "disc" THEN "done" ELSE IF @ = "issued" THEN "early" ELSE @]

\* startTunnelTests: the probe of the tunnel is launched; its result comes as
\* an event.
startTunnelTests(s) == [s EXCEPT !.tunnelTests = TRUE]

isCustomOvpnConfigCurrentConnection(s) == isCustomConfigsLocation(s.cmLoc)

\* continueWith...(creds, needReconnect): resumes the attempt that waits for the
\* credentials, or starts the custom config's attempt again when it ended with
\* a credential error; there is nothing to continue otherwise.
cmContinueWith(s, bNeedReconnect) ==
    LET again == /\ s.cm = "idle"
                 /\ bNeedReconnect
                 /\ isCustomOvpnConfigCurrentConnection(s)
    IN  [s EXCEPT !.cm = IF @ = "waitUser" \/ again THEN "connecting" ELSE @]

\* No connect command issued while Connected is being followed.
\* Nothing has happened yet.
\*   nSignOut, nSignOutFinished: signOut commands issued, signOutFinished emitted;
\*   tagFresh: senderSource was set and no disconnected event has read it since;
\*   staleFollowUp: a disconnected event ran a follow-up for a tag read before;
\*   locFailed: doConnect could not resolve the location, and no command has
\*     been issued and no posted slot taken since;
\*   fwOffAtConnect: the attempt under way is for a static IPs location, the
\*     firewall was off when doConnect issued its clickConnect, and it has not
\*     connected yet;
\*   discDuringRefetch: a disconnect request was handled while the refetch that
\*     is under way was under way;
\*   secondAttempt: doConnect issued clickConnect while the ConnectionManager
\*     was not disconnected;
\*   splitTunnelingFailed: the last connected event emitted
\*     helperSplitTunnelingStartFailed;
\*   notAllowedAfter: isAllowFirewallAfterConnection() was false in the last
\*     connected event, and no command has been issued, no posted slot taken
\*     and no reconnecting event handled since;
\*   discReason, discTag: the step that led here was a disconnected event, with
\*     this reason and this sender source;
\*   gotIp: the step that led here called myIpManager_->getIP;
\*   err: the step that led here was an error event, with this error;
\*   fwd: the step that led here handed credentials to the ConnectionManager
\*     with this needReconnect ("T" or "F");
\*   askedBy: the handler that last asked the user for a credential ("error" or
\*     "request");
\*   cs: the connection settings of the last connect command whose slot was
\*     taken;
\*   watch: discReason, discTag, gotIp, err, fwd, askedBy and cs are kept (they
\*     are not kept in the specifications whose claims do not refer to them).
NoHist ==
    [nSignOut |-> 0, nSignOutFinished |-> 0, tagFresh |-> FALSE, staleFollowUp |-> FALSE,
     locFailed |-> FALSE, fwOffAtConnect |-> FALSE, discDuringRefetch |-> FALSE,
     secondAttempt |-> FALSE, splitTunnelingFailed |-> FALSE,
     notAllowedAfter |-> FALSE, discReason |-> "", discTag |-> "", gotIp |-> FALSE,
     err |-> "", fwd |-> "", askedBy |-> "", cs |-> "", watch |-> FALSE]

NoRc == [ph |-> "none", to |-> "A", nDisc |-> 0, sawDisc |-> FALSE]

\* --------------------------------------------------- Engine, its thread

stopFetchingServerCredentials(s) == [s EXCEPT !.credsSub = FALSE]

\* The teardown of the emergency connection at a login: blockingDisconnect and
\* the state set by the Engine itself.
emergencyTeardown(s) ==
    IF s.emergency.ctl # "idle"
    THEN [s EXCEPT !.emergency = [state |-> "Disconnected", ctl |-> "idle"]]
    ELSE s

\* loginImpl(true, ...): a new ApiResourcesManager; with a session in the
\* settings the login finishes at once, otherwise it waits for readyForLogin.
loginImpl(s) ==
    IF s.apiResourcesManager_.loadFromSettings
    THEN [emergencyTeardown(s) EXCEPT !.apiResourcesManager_.st = "in", !.signedOut = FALSE]
    ELSE [s EXCEPT !.apiResourcesManager_.st = "pending"]

\* "If we have connected / disconnected and are still not logged in, then try
\* again."
loginIfNotLoggedIn(s) == IF s.apiResourcesManager_.st = "pending" THEN loginImpl(s) ELSE s

onApiResourcesManagerReadyForLogin(s) ==
    [emergencyTeardown(s) EXCEPT !.apiResourcesManager_.st = "in", !.signedOut = FALSE]

doDisconnectRestoreStuff(s) ==
    loginIfNotLoggedIn([s EXCEPT !.dns = "disc",
                                 !.connectingIp = FALSE,
                                 !.fw = IF @ # "off" THEN "pre" ELSE @])

\* After locationsModel_->clear() the account locations are gone; the custom
\* configs connect without a login.
doConnect(s, bEmitAuthError) ==
    IF ~LocationExists(s.locationId_) \/ (s.signedOut /\ ~isCustomConfigsLocation(s.locationId_))
    THEN setDisconnectedState([s EXCEPT !.hist.locFailed = TRUE, !.hist.gotIp = s.hist.watch],
                              "DISCONNECTED_WITH_ERROR", "LOCATION_NOT_EXIST")
    ELSE IF ~isExistSelectedNode(s.locationId_)
    THEN setDisconnectedState([s EXCEPT !.hist.locFailed = TRUE, !.hist.gotIp = s.hist.watch],
                              "DISCONNECTED_WITH_ERROR", "LOCATION_NO_ACTIVE_NODES")
    ELSE clickConnect([s EXCEPT !.hist.fwOffAtConnect =
                                    isStaticIpsLocation(s.locationId_) /\ s.fw = "off",
                                !.hist.secondAttempt = @ \/ ~isDisconnected(s),
                                !.cmSettings =
                                    IF /\ ~s.signedOut
                                       /\ s.connectionSettingsOverride_ # AutomaticSettings
                                    THEN s.connectionSettingsOverride_
                                    ELSE NetworkSettings,
                                !.cmSettingsNetwork = s.curNetwork],
                      s.locationId_, bEmitAuthError)

\* The block test that lets every connect through.
isConnectBlocked_never(s) == FALSE

\* updateFirewallSettings that applies the rules whatever the firewall's state.
updateFirewallSettings_always(s) ==
    [s EXCEPT !.fw = IF s.state # "Connected" THEN "pre" ELSE "conn"]

\* updateFirewallSettings: firewallOn with the rules of the current state, only
\* when firewallActualState().
updateFirewallSettings(s) ==
    [s EXCEPT !.fw = IF @ = "off" THEN "off"
                     ELSE IF s.state # "Connected" THEN "pre" ELSE "conn"]

\* addCustomRemoteIpToFirewallIfNeed: the remote ip of the extra config, when
\* there is one, goes to the exceptions.
addCustomRemoteIpToFirewallIfNeed(s) ==
    IF s.extraConfig.remoteIp # "" /\ s.firewallExceptions_.customRemoteIp # s.extraConfig.remoteIp
    THEN updateFirewallSettings(
             [s EXCEPT !.firewallExceptions_.customRemoteIp = s.extraConfig.remoteIp])
    ELSE s

\* connectClickImpl: isBlockConnect_ && !locationId_.isCustomConfigsLocation()
isConnectBlocked(s) == s.isBlockConnect_ /\ ~isCustomConfigsLocation(s.locationId_)

\* connectClickImpl that turns the firewall on whatever the configured timing.
connectClickImpl_anyTiming(s0, loc, connectionSettings) ==
    LET s == [s0 EXCEPT !.locationId_ = loc,
                        !.connectionSettingsOverride_ = connectionSettings]
    IN  IF ~isDisconnected(s)
        THEN clickDisconnect([s EXCEPT !.senderSource = "reconnect", !.hist.tagFresh = TRUE,
                                       !.hist.discDuringRefetch = @ \/ s.fetching])
        ELSE IF isConnectBlocked(s)
        THEN setDisconnectedState([s EXCEPT !.hist.gotIp = s.hist.watch],
                                  "DISCONNECTED_WITH_ERROR", "CONNECTION_BLOCKED")
        ELSE LET s1 == stopFetchingServerCredentials(addCustomRemoteIpToFirewallIfNeed(s))
                 before == s1.fwMode = "automatic" /\ s1.fw = "off"
                 s2 == [s1 EXCEPT !.fw = IF before THEN "pre" ELSE @,
                                  !.firedBefore = @ \/ before,
                                  !.autoRetries = 0]
             IN  doConnect(s2, TRUE)

\* connectClickImpl that does not ask the ConnectionManager whether it is
\* disconnected.
connectClickImpl_noTest(s0, loc, connectionSettings) ==
    LET s == [s0 EXCEPT !.locationId_ = loc,
                        !.connectionSettingsOverride_ = connectionSettings]
    IN  IF isConnectBlocked(s)
        THEN setDisconnectedState([s EXCEPT !.hist.gotIp = s.hist.watch],
                                  "DISCONNECTED_WITH_ERROR", "CONNECTION_BLOCKED")
        ELSE LET s1 == stopFetchingServerCredentials(addCustomRemoteIpToFirewallIfNeed(s))
                 before == /\ s1.fwMode = "automatic"
                           /\ s1.fwWhen = "before"
                           /\ s1.fw = "off"
                 s2 == [s1 EXCEPT !.fw = IF before THEN "pre" ELSE @,
                                  !.firedBefore = @ \/ before,
                                  !.autoRetries = 0]
             IN  doConnect(s2, TRUE)

connectClickImpl(s0, loc, connectionSettings) ==
    LET s == [s0 EXCEPT !.locationId_ = loc,
                        !.connectionSettingsOverride_ = connectionSettings]
    IN  IF ~isDisconnected(s)
        THEN clickDisconnect([s EXCEPT !.senderSource = "reconnect", !.hist.tagFresh = TRUE,
                                       !.hist.discDuringRefetch = @ \/ s.fetching])
        ELSE IF isConnectBlocked(s)
        THEN setDisconnectedState([s EXCEPT !.hist.gotIp = s.hist.watch],
                                  "DISCONNECTED_WITH_ERROR", "CONNECTION_BLOCKED")
        ELSE LET s1 == stopFetchingServerCredentials(addCustomRemoteIpToFirewallIfNeed(s))
                 before == /\ s1.fwMode = "automatic"
                           /\ s1.fwWhen = "before"
                           /\ s1.fw = "off"
                 s2 == [s1 EXCEPT !.fw = IF before THEN "pre" ELSE @,
                                  !.firedBefore = @ \/ before,
                                  !.autoRetries = 0]
             IN  doConnect(s2, TRUE)

disconnectClickImpl(s) ==
    clickDisconnect([stopFetchingServerCredentials(s) EXCEPT
                         !.senderSource = "",
                         !.hist.tagFresh = FALSE,
                         !.hist.discDuringRefetch = @ \/ s.fetching])

\* continueWith...Impl that hands on whatever it is given.
continueWithImpl_forward(s, kind, isEmpty, bSave) ==
    LET saved == s.stored \cup {kind}
    IN  cmContinueWith([s EXCEPT !.stored = IF bSave THEN saved ELSE @,
                                 !.hist.fwd = IF ~s.hist.watch THEN ""
                                              ELSE IF s.needReconnect THEN "T" ELSE "F"],
                       s.needReconnect)

\* continueWithUsernameAndPasswordImpl / continueWithPasswordImpl /
\* continueWithPrivKeyPasswordImpl; stored holds the non-empty fields.
continueWithImpl(s, kind, isEmpty, bSave) ==
    IF isEmpty
    THEN clickDisconnect([s EXCEPT !.hist.discDuringRefetch = @ \/ s.fetching])
    ELSE LET saved == s.stored \cup {kind}
         IN  cmContinueWith([s EXCEPT !.stored = IF bSave THEN saved ELSE @,
                                      !.hist.fwd = IF ~s.hist.watch THEN ""
                                                   ELSE IF s.needReconnect THEN "T" ELSE "F"],
                            s.needReconnect)

\* getMtuOffsetWireguard / getMtuOffsetIkev2 with the default of the protocol
\* when the advanced parameter is not given.
mtuOffset(s) ==
    IF isWireGuardProtocol(s.vpnAdapter.protocol)
    THEN IF s.extraConfig.wireguard.given THEN s.extraConfig.wireguard.offset
         ELSE MTU_OFFSET_WG
    ELSE IF s.extraConfig.ikev2.given THEN s.extraConfig.ikev2.offset
         ELSE MTU_OFFSET_IKEV2

mtuForProtocol(s) == s.packetSize_.mtu - mtuOffset(s)

\* The MTU step that also applies a value of 0.
applyMtu_zero(s) ==
    IF /\ isIkev2Protocol(s.vpnAdapter.protocol) \/ isWireGuardProtocol(s.vpnAdapter.protocol)
       /\ ~s.packetSize_.isAutomatic
       /\ mtuForProtocol(s) >= 0
    THEN [s EXCEPT !.vpnAdapter.mtu = mtuForProtocol(s)]
    ELSE s

\* onConnectionManagerConnected, the MTU of the adapter: helper_->changeMtu for
\* IKEv2 and WireGuard when the packet size is not automatic and the value is
\* positive.
applyMtu(s) ==
    IF /\ isIkev2Protocol(s.vpnAdapter.protocol) \/ isWireGuardProtocol(s.vpnAdapter.protocol)
       /\ ~s.packetSize_.isAutomatic
       /\ mtuForProtocol(s) > 0
    THEN [s EXCEPT !.vpnAdapter.mtu = mtuForProtocol(s)]
    ELSE s

\* onConnectionManagerConnected that whitelists no port.
onConnectionManagerConnected_noWhitelist(s, isAllowFirewallAfterConnection) ==
    LET auto == s.fwMode = "automatic"
        enable == /\ auto
                  /\ isAllowFirewallAfterConnection
                  /\ s.fwWhen = "after"
                  /\ s.fw = "off"
        disable == /\ auto
                   /\ ~isAllowFirewallAfterConnection
                   /\ s.fwWhen = "before"
                   /\ s.fw # "off"
        fw1 == IF enable THEN "conn" ELSE IF disable THEN "off" ELSE s.fw
        fw2 == IF fw1 # "off" /\ ~enable THEN "conn" ELSE fw1
    IN  loginIfNotLoggedIn(startTunnelTests(
            setConnectedState([applyMtu(s) EXCEPT !.fw = fw2,
                                        !.firedAfter = @ \/ enable,
                                        !.hist.fwOffAtConnect = FALSE,
                                        !.hist.splitTunnelingFailed = s.helperFails,
                                        !.hist.notAllowedAfter =
                                            ~isAllowFirewallAfterConnection,
                                        !.dns = "conn"])))

\* onConnectionManagerConnected without "Automatic disable firewall after
\* connection".
onConnectionManagerConnected_noDisable(s, isAllowFirewallAfterConnection) ==
    LET auto == s.fwMode = "automatic"
        enable == /\ auto
                  /\ isAllowFirewallAfterConnection
                  /\ s.fwWhen = "after"
                  /\ s.fw = "off"
        fw1 == IF enable THEN "conn" ELSE s.fw
        fw2 == IF fw1 # "off" /\ ~enable THEN "conn" ELSE fw1
    IN  loginIfNotLoggedIn(startTunnelTests(
            setConnectedState([applyMtu(s) EXCEPT !.fw = fw2,
                                        !.firedAfter = @ \/ enable,
                                        !.whitelist = IF isStaticIpsLocation(s.cmLoc)
                                                      THEN getStatisIps(s.cmLoc)
                                                      ELSE @,
                                        !.hist.fwOffAtConnect = FALSE,
                                        !.hist.splitTunnelingFailed = s.helperFails,
                                        !.hist.notAllowedAfter =
                                            ~isAllowFirewallAfterConnection,
                                        !.dns = "conn"])))

\* onConnectionManagerConnected that applies the automatic rules in manual mode
\* too.
onConnectionManagerConnected_anyMode(s, isAllowFirewallAfterConnection) ==
    LET enable == /\ isAllowFirewallAfterConnection
                  /\ s.fwWhen = "after"
                  /\ s.fw = "off"
        disable == /\ ~isAllowFirewallAfterConnection
                   /\ s.fwWhen = "before"
                   /\ s.fw # "off"
        fw1 == IF enable THEN "conn" ELSE IF disable THEN "off" ELSE s.fw
        fw2 == IF fw1 # "off" /\ ~enable THEN "conn" ELSE fw1
    IN  loginIfNotLoggedIn(startTunnelTests(
            setConnectedState([applyMtu(s) EXCEPT !.fw = fw2,
                                        !.firedAfter = @ \/ enable,
                                        !.whitelist = IF isStaticIpsLocation(s.cmLoc)
                                                      THEN getStatisIps(s.cmLoc)
                                                      ELSE @,
                                        !.hist.fwOffAtConnect = FALSE,
                                        !.hist.splitTunnelingFailed = s.helperFails,
                                        !.hist.notAllowedAfter =
                                            ~isAllowFirewallAfterConnection,
                                        !.dns = "conn"])))

onConnectionManagerConnected(s, isAllowFirewallAfterConnection) ==
    LET auto == s.fwMode = "automatic"
        enable == /\ auto
                  /\ isAllowFirewallAfterConnection
                  /\ s.fwWhen = "after"
                  /\ s.fw = "off"
        disable == /\ auto
                   /\ ~isAllowFirewallAfterConnection
                   /\ s.fwWhen = "before"
                   /\ s.fw # "off"
        fw1 == IF enable THEN "conn" ELSE IF disable THEN "off" ELSE s.fw
        fw2 == IF fw1 # "off" /\ ~enable THEN "conn" ELSE fw1
    IN  loginIfNotLoggedIn(startTunnelTests(
            setConnectedState([applyMtu(s) EXCEPT !.fw = fw2,
                                        !.firedAfter = @ \/ enable,
                                        !.whitelist = IF isStaticIpsLocation(s.cmLoc)
                                                      THEN getStatisIps(s.cmLoc)
                                                      ELSE @,
                                        !.hist.fwOffAtConnect = FALSE,
                                        !.hist.splitTunnelingFailed = s.helperFails,
                                        !.hist.notAllowedAfter =
                                            ~isAllowFirewallAfterConnection,
                                        !.dns = "conn"])))

\* signOutImplAfterDisconnect: the locations are cleared, the
\* ApiResourcesManager is destroyed (its signals with it), the firewall is
\* turned off unless it is to be kept, signOutFinished is emitted.
signOutImplAfterDisconnect(s, keepFirewallOn) ==
    [s EXCEPT !.signedOut = TRUE,
              !.apiResourcesManager_.st = "none",
              !.credsSub = FALSE,
              !.fetching = FALSE,
              !.hist.discDuringRefetch = FALSE,
              !.fw = IF keepFirewallOn THEN @ ELSE "off",
              !.hist.nSignOutFinished = @ + 1]

signOutImpl(s, keepFirewallOn) ==
    IF ~isDisconnected(s)
    THEN clickDisconnect([s EXCEPT !.senderSource = IF keepFirewallOn
                                                    THEN "signOutImplKeepFirewallOn"
                                                    ELSE "signOutImpl",
                                   !.hist.tagFresh = TRUE,
                                   !.hist.discDuringRefetch = @ \/ s.fetching])
    ELSE signOutImplAfterDisconnect(s, keepFirewallOn)

\* onConnectionManagerDisconnected: "the firewall rules are removed for static
\* IPs location".
deleteStaticIpsWhitelist(s) ==
    [s EXCEPT !.whitelist = IF isStaticIpsLocation(s.cmLoc) THEN {} ELSE @]

\* The sender source that stays on the ConnectionManager after it was read.
takeSenderSource_keep(s) ==
    [s EXCEPT !.hist.staleFollowUp = @ \/ (s.senderSource # "" /\ ~s.hist.tagFresh),
              !.hist.tagFresh = FALSE]

\* onConnectionManagerDisconnected, "get sender source for additional actions
\* in this handler": the property is read and reset.
takeSenderSource(s) ==
    [s EXCEPT !.senderSource = "",
              !.hist.staleFollowUp = @ \/ (s.senderSource # "" /\ ~s.hist.tagFresh),
              !.hist.tagFresh = FALSE]

\* "Connection Settings override is one-time only, reset it"
resetConnectionSettingsOverride(s) ==
    [s EXCEPT !.connectionSettingsOverride_ = AutomaticSettings]

\* onConnectionManagerDisconnected that forgets the "reconnect" sender.
onConnectionManagerDisconnected_noReconnect(s0, reason) ==
    LET s1 == [takeSenderSource(deleteStaticIpsWhitelist(s0))
                   EXCEPT !.rc.ph = IF @ = "issued" THEN "disc" ELSE @,
                          !.hist.discReason = IF s0.hist.watch THEN reason ELSE "",
                          !.hist.discTag = IF s0.hist.watch THEN s0.senderSource ELSE ""]
    IN  setDisconnectedState(resetConnectionSettingsOverride(doDisconnectRestoreStuff(s1)),
                             reason, "NO_CONNECT_ERROR")

\* onConnectionManagerDisconnected that turns the automatic firewall off
\* whatever the reason.
onConnectionManagerDisconnected_anyReason(s0, reason) ==
    LET src == s0.senderSource
        s1 == [takeSenderSource(deleteStaticIpsWhitelist(s0))
                   EXCEPT !.rc.ph = IF @ = "issued" THEN "disc" ELSE @,
                          !.hist.discReason = IF s0.hist.watch THEN reason ELSE "",
                          !.hist.discTag = IF s0.hist.watch THEN s0.senderSource ELSE ""]
        s2 == doDisconnectRestoreStuff(s1)
    IN  IF src = "signOutImpl"
        THEN setDisconnectedState(resetConnectionSettingsOverride(
                                    signOutImplAfterDisconnect(s2, FALSE)),
                                  reason, "NO_CONNECT_ERROR")
        ELSE IF src = "signOutImplKeepFirewallOn"
        THEN setDisconnectedState(resetConnectionSettingsOverride(
                                    signOutImplAfterDisconnect(s2, TRUE)),
                                  reason, "NO_CONNECT_ERROR")
        ELSE IF src = "reconnect"
        THEN connectClickImpl(s2, s2.locationId_, s2.connectionSettingsOverride_)
        ELSE LET off == /\ s2.fwMode = "automatic"
                        /\ s2.fw # "off"
             IN  setDisconnectedState(resetConnectionSettingsOverride(
                                    [s2 EXCEPT !.fw = IF off THEN "off" ELSE @,
                                               !.hist.gotIp = s2.hist.watch]),
                                      reason, "NO_CONNECT_ERROR")

\* onConnectionManagerDisconnected that leaves the override as it is.
onConnectionManagerDisconnected_keepOverride(s0, reason) ==
    LET src == s0.senderSource
        s1 == [takeSenderSource(deleteStaticIpsWhitelist(s0))
                   EXCEPT !.rc.ph = IF @ = "issued" THEN "disc" ELSE @,
                          !.hist.discReason = IF s0.hist.watch THEN reason ELSE "",
                          !.hist.discTag = IF s0.hist.watch THEN s0.senderSource ELSE ""]
        s2 == doDisconnectRestoreStuff(s1)
    IN  IF src = "signOutImpl"
        THEN setDisconnectedState(signOutImplAfterDisconnect(s2, FALSE),
                                  reason, "NO_CONNECT_ERROR")
        ELSE IF src = "signOutImplKeepFirewallOn"
        THEN setDisconnectedState(signOutImplAfterDisconnect(s2, TRUE),
                                  reason, "NO_CONNECT_ERROR")
        ELSE IF src = "reconnect"
        THEN connectClickImpl(s2, s2.locationId_, s2.connectionSettingsOverride_)
        ELSE LET off == /\ reason = "DISCONNECTED_BY_USER"
                        /\ s2.fwMode = "automatic"
                        /\ s2.fw # "off"
             IN  setDisconnectedState([s2 EXCEPT !.fw = IF off THEN "off" ELSE @,
                                               !.hist.gotIp = s2.hist.watch],
                                      reason, "NO_CONNECT_ERROR")

onConnectionManagerDisconnected(s0, reason) ==
    LET src == s0.senderSource
        s1 == [takeSenderSource(deleteStaticIpsWhitelist(s0))
                   EXCEPT !.rc.ph = IF @ = "issued" THEN "disc" ELSE @,
                          !.hist.discReason = IF s0.hist.watch THEN reason ELSE "",
                          !.hist.discTag = IF s0.hist.watch THEN s0.senderSource ELSE ""]
        s2 == doDisconnectRestoreStuff(s1)
    IN  IF src = "signOutImpl"
        THEN setDisconnectedState(resetConnectionSettingsOverride(
                                    signOutImplAfterDisconnect(s2, FALSE)),
                                  reason, "NO_CONNECT_ERROR")
        ELSE IF src = "signOutImplKeepFirewallOn"
        THEN setDisconnectedState(resetConnectionSettingsOverride(
                                    signOutImplAfterDisconnect(s2, TRUE)),
                                  reason, "NO_CONNECT_ERROR")
        ELSE IF src = "reconnect"
        THEN connectClickImpl(s2, s2.locationId_, s2.connectionSettingsOverride_)
        ELSE LET off == /\ reason = "DISCONNECTED_BY_USER"
                        /\ s2.fwMode = "automatic"
                        /\ s2.fw # "off"
             IN  setDisconnectedState(resetConnectionSettingsOverride(
                                    [s2 EXCEPT !.fw = IF off THEN "off" ELSE @,
                                               !.hist.gotIp = s2.hist.watch]),
                                      reason, "NO_CONNECT_ERROR")

onConnectionManagerReconnecting(s) ==
    setConnectingState([s EXCEPT !.dns = "disc",
                                 !.fw = IF @ # "off" THEN "pre" ELSE @])

onConnectionManagerError(s, err) ==
    IF err = "AUTH_ERROR"
    THEN LET s1 == doDisconnectRestoreStuff(s)
         IN  IF isCustomOvpnConfigCurrentConnection(s1)
             THEN [s1 EXCEPT !.stored = @ \ {"username"},
                             !.needReconnect = TRUE,
                             !.hist.askedBy = IF s.hist.watch THEN "error" ELSE "",
                             !.pendingUi = "username"]
             ELSE IF s1.signedOut
             THEN s1
             ELSE [s1 EXCEPT !.credsSub = TRUE, !.fetching = TRUE,
                             !.hist.discDuringRefetch = FALSE]
    ELSE IF err = "PRIV_KEY_PASSWORD_ERROR"
    THEN [doDisconnectRestoreStuff(s) EXCEPT !.stored = @ \ {"privkey"},
                                             !.needReconnect = TRUE,
                                             !.hist.askedBy = IF s.hist.watch THEN "error"
                                                              ELSE "",
                                             !.pendingUi = "privkey"]
    ELSE setDisconnectedState(s, "DISCONNECTED_WITH_ERROR", err)

\* firewallOnImpl: the rules of the connected state when Connected, those of
\* the connecting state otherwise.
firewallOnImpl(s) == [s EXCEPT !.fw = IF s.state # "Connected" THEN "pre" ELSE "conn"]

firewallOffImpl(s) == [s EXCEPT !.fw = "off"]

\* onConnectionManagerTestTunnelResult: emit testTunnelResult(success), and
\* myIpUpdated when the test gave an address.
onConnectionManagerTestTunnelResult(s, success) == s

\* onPacketSizeControllerPacketSizeChanged: the member is replaced (and handed
\* to the ConnectionManager and to the emergency controller).
onPacketSizeControllerPacketSizeChanged(s, isAuto, mtu) ==
    [s EXCEPT !.packetSize_ = [isAutomatic |-> isAuto, mtu |-> mtu]]

\* onNetworkChange that reconnects on the new network.
onNetworkChange_reconnect(s, networkOrSsid) ==
    LET s1 == [s EXCEPT !.curNetwork = networkOrSsid,
                        !.cmSettingsNetwork = IF networkOrSsid # "" THEN networkOrSsid ELSE @]
    IN  IF ~isDisconnected(s1)
        THEN clickDisconnect([s1 EXCEPT !.senderSource = "reconnect", !.hist.tagFresh = TRUE])
        ELSE s1

\* onNetworkChange: connectionManager_->updateConnectionSettings with the
\* settings of the network, when the network has a name.
onNetworkChange(s, networkOrSsid) ==
    [s EXCEPT !.curNetwork = networkOrSsid,
              !.cmSettingsNetwork = IF networkOrSsid # "" THEN networkOrSsid ELSE @]

onHostIPsChanged(s, hostIps) ==
    updateFirewallSettings([s EXCEPT !.firewallExceptions_.hostIPs = hostIps])

onLocationsModelWhitelistIpsChanged(s, ips) ==
    updateFirewallSettings([s EXCEPT !.firewallExceptions_.locationsPingIps = ips])

onLocationsModelWhitelistCustomConfigIpsChanged(s, ips) ==
    updateFirewallSettings([s EXCEPT !.firewallExceptions_.customConfigPingIps = ips])

\* updateProxySettings: the proxy's address goes to the exceptions when the
\* proxy settings have changed.
updateProxySettings(s, proxyIP) ==
    IF proxyIP # s.firewallExceptions_.proxyIP
    THEN updateFirewallSettings([s EXCEPT !.firewallExceptions_.proxyIP = proxyIP])
    ELSE s

\* setSettingsImpl, for the settings the firewall's rules depend on.
setSettingsImpl(s, allowLanTraffic, proxyIP) ==
    IF allowLanTraffic = s.isAllowLanTraffic /\ proxyIP = s.firewallExceptions_.proxyIP
    THEN s
    ELSE LET s1 == [s EXCEPT !.isAllowLanTraffic = allowLanTraffic]
             s2 == IF allowLanTraffic # s.isAllowLanTraffic
                   THEN updateFirewallSettings(s1) ELSE s1
         IN  updateProxySettings(s2, proxyIP)

onConnectionManagerConnectingToHostname(s) ==
    LET s1 == setConnectingState(s)
    IN  IF ~s1.connectingIp
        THEN updateFirewallSettings([s1 EXCEPT !.connectingIp = TRUE])
        ELSE s1

\* The request handler that asks the user whatever is stored.
onConnectionManagerRequest_alwaysAsk(s, kind) ==
    [s EXCEPT !.needReconnect = FALSE,
              !.hist.askedBy = IF s.hist.watch THEN "request" ELSE "",
              !.pendingUi = kind]

\* onConnectionManagerRequestUsername / RequestPassword / RequestPrivKeyPassword
onConnectionManagerRequest(s, kind) ==
    LET have == kind \in s.stored
    IN  IF have
        THEN cmContinueWith(s, FALSE)
        ELSE [s EXCEPT !.needReconnect = FALSE,
                       !.hist.askedBy = IF s.hist.watch THEN "request" ELSE "",
                       !.pendingUi = kind]

\* onApiResourcesManagerServerCredentialsFetched that asks for AUTH_ERROR again.
onApiResourcesManagerServerCredentialsFetched_emitAuth(s) ==
    LET s1 == stopFetchingServerCredentials(s)
    IN  doConnect([s1 EXCEPT !.autoRetries = IF @ < 2 THEN @ + 1 ELSE @], TRUE)

onApiResourcesManagerServerCredentialsFetched(s) ==
    LET s1 == stopFetchingServerCredentials(s)
    IN  doConnect([s1 EXCEPT !.autoRetries = IF @ < 2 THEN @ + 1 ELSE @], FALSE)

\* ------------------------------------------- Engine, the caller's thread

\* A posted slot; block and ask are no part of it: block keeps, for a
\* connectClickImpl, what isBlockConnect_ was when the command was submitted,
\* ask keeps, for a continueWithImpl, which handler had asked for the
\* credential.
Post(s, item) ==
    [s EXCEPT !.queue = Append(@, [item EXCEPT !.block = /\ item.op = "connectClickImpl"
                                                         /\ s.isBlockConnect_,
                                               !.ask = IF item.op = "continueWithImpl"
                                                       THEN s.hist.askedBy ELSE ""]),
              !.hist.locFailed = FALSE,
              !.hist.notAllowedAfter = FALSE]

Item(op, loc, kind, isEmpty, bSave) ==
    [op |-> op, loc |-> loc, kind |-> kind, isEmpty |-> isEmpty, bSave |-> bSave,
     block |-> FALSE, ask |-> "", cs |-> AutomaticSettings]

\* connectClick that leaves the state to the posted slot.
connectClick_noSet(s, loc, connectionSettings) ==
    Post([s EXCEPT !.locationId_ = loc, !.nCommands = @ + 1, !.pendingUi = "none",
                   !.firedBefore = FALSE, !.firedAfter = FALSE, !.rc = NoRc],
         [Item("connectClickImpl", loc, "none", FALSE, FALSE)
              EXCEPT !.cs = connectionSettings])

connectClick(s, loc, connectionSettings) ==
    LET follow == /\ s.state = "Connected"
                  /\ s.cm = "connected"
                  /\ s.queue = <<>>
                  /\ loc # s.cmLoc
                  /\ isExistSelectedNode(loc)
                  /\ ~s.isBlockConnect_ \/ isCustomConfigsLocation(loc)
        s1 == [s EXCEPT !.locationId_ = loc,
                        !.nCommands = @ + 1,
                        !.pendingUi = "none",
                        !.firedBefore = FALSE,
                        !.firedAfter = FALSE,
                        !.rc = IF follow THEN [NoRc EXCEPT !.ph = "issued", !.to = loc]
                               ELSE NoRc]
    IN  Post(setConnectingState(s1),
             [Item("connectClickImpl", loc, "none", FALSE, FALSE)
                  EXCEPT !.cs = connectionSettings])

\* disconnectClick, first test: currentState() == CONNECT_STATE_CONNECTED
disconnectClick_test1(s) ==
    [s EXCEPT !.guiPc = IF s.state = "Connected" THEN "dcSet" ELSE "dc2"]

\* disconnectClick whose second test is lost.
disconnectClick_test2_always(s) == [s EXCEPT !.guiPc = "dcSet"]

\* disconnectClick, second test: currentState() == CONNECT_STATE_CONNECTING
disconnectClick_test2(s) ==
    [s EXCEPT !.guiPc = IF s.state = "Connecting" THEN "dcSet" ELSE "idle",
              !.nCommands = IF s.state = "Connecting" THEN @ ELSE @ + 1]

\* disconnectClick, the body of the if
disconnectClick_set(s) ==
    Post(setDisconnectingState([s EXCEPT !.guiPc = "idle", !.nCommands = @ + 1,
                                       !.pendingUi = "none", !.rc = NoRc]),
         Item("disconnectClickImpl", "A", "none", FALSE, FALSE))

setBlockConnect(s, isBlockConnect) ==
    [s EXCEPT !.isBlockConnect_ = isBlockConnect, !.nCommands = @ + 1, !.rc = NoRc]

\* continueWithUsernameAndPassword / continueWithPassword / continueWithPrivKeyPassword
continueWith(s, kind, isEmpty, bSave) ==
    Post([s EXCEPT !.pendingUi = "none", !.nCommands = @ + 1, !.rc = NoRc],
         Item("continueWithImpl", "A", kind, isEmpty, bSave))

firewallOn(s) ==
    Post([s EXCEPT !.nCommands = @ + 1, !.rc = NoRc],
         Item("firewallOnImpl", "A", "none", FALSE, FALSE))

firewallOff(s) ==
    Post([s EXCEPT !.nCommands = @ + 1, !.rc = NoRc],
         Item("firewallOffImpl", "A", "none", FALSE, FALSE))

\* emergencyConnectClick / emergencyDisconnectClick: the state of the emergency
\* connection is set on the caller's thread, the slot is posted.
emergencyConnectClick(s) ==
    Post([s EXCEPT !.emergency.state = "Connecting", !.nCommands = @ + 1, !.rc = NoRc],
         Item("emergencyConnectClickImpl", "A", "none", FALSE, FALSE))

emergencyDisconnectClick(s) ==
    Post([s EXCEPT !.emergency.state = "Disconnecting", !.nCommands = @ + 1, !.rc = NoRc],
         Item("emergencyDisconnectClickImpl", "A", "none", FALSE, FALSE))

\* emergencyController_->clickConnect / clickDisconnect
emergencyConnectClickImpl(s) ==
    [s EXCEPT !.emergency.ctl = IF @ = "idle" THEN "connecting" ELSE @]

emergencyDisconnectClickImpl(s) ==
    [s EXCEPT !.emergency.ctl = IF @ # "idle" THEN "disconnecting" ELSE @]

\* The proxy is disabled together with the switch of the DNS servers to the
\* connected set, and enabled together with the switch back.
onEmergencyControllerConnected(s) ==
    [s EXCEPT !.dns = "conn", !.emergency.state = "Connected"]

onEmergencyControllerDisconnected(s) ==
    [s EXCEPT !.dns = "disc", !.emergency.state = "Disconnected"]

onEmergencyControllerError(s) == [s EXCEPT !.emergency.state = "Disconnected"]

\* loginWithAuthHash: loginImpl(true, ...) is posted.
loginWithAuthHash(s) ==
    Post([s EXCEPT !.nCommands = @ + 1, !.rc = NoRc],
         Item("loginImpl", "A", "none", FALSE, FALSE))

\* signOut: the argument travels in the last field of the posted item.
signOut(s, keepFirewallOn) ==
    Post([s EXCEPT !.nCommands = @ + 1, !.pendingUi = "none", !.rc = NoRc,
                   !.hist.nSignOut = @ + 1],
         Item("signOutImpl", "A", "none", FALSE, keepFirewallOn))

\* ------------------------------------------------------------- shutdown

\* The part of the state that cleanup() and cleanupImpl() touch.
CleanupCur ==
    [initCleanupConnected |-> initCleanupConnected, cleanupQueue |-> cleanupQueue,
     cleanupStack |-> cleanupStack, isCleanupFinished_ |-> isCleanupFinished_,
     components |-> components, thread |-> thread, firewallOnBoot |-> firewallOnBoot,
     vpnShare |-> vpnShare, teardown |-> teardown, nCleanupCalls |-> nCleanupCalls,
     cm |-> cm, fw |-> fw, credsSub |-> credsSub, fetching |-> fetching, queue |-> queue]

CleanupCommit(c) ==
    /\ initCleanupConnected' = c.initCleanupConnected
    /\ cleanupQueue' = c.cleanupQueue
    /\ cleanupStack' = c.cleanupStack
    /\ isCleanupFinished_' = c.isCleanupFinished_
    /\ components' = c.components
    /\ thread' = c.thread
    /\ firewallOnBoot' = c.firewallOnBoot
    /\ vpnShare' = c.vpnShare
    /\ teardown' = c.teardown
    /\ nCleanupCalls' = c.nCleanupCalls
    /\ cm' = c.cm
    /\ fw' = c.fw
    /\ credsSub' = c.credsSub
    /\ fetching' = c.fetching
    /\ queue' = c.queue
    /\ UNCHANGED <<state, stReason, stErr, lastSet, guiPc, locationId_, isBlockConnect_,
                    senderSource, cmLoc, cmEmitAuth, fwMode, fwWhen, dns, connectingIp,
                    pendingUi, needReconnect, stored, firedBefore, firedAfter, autoRetries,
                    rc, nCommands, signedOut, curNetwork, cmSettingsNetwork, whitelist,
                    helperFails, tunnelTests, connectionSettingsOverride_, cmSettings,
                    packetSize_, extraConfig, vpnAdapter, firewallExceptions_,
                    isAllowLanTraffic, emergency, apiResourcesManager_, hist>>

\* The arguments of cleanup().
CleanupArgs ==
    [isExitWithRestart : BOOLEAN, isFirewallChecked : BOOLEAN,
     isFirewallAlwaysOn : BOOLEAN, isLaunchOnStart : BOOLEAN]

\* cleanup(): emit initCleanup(...); the slot lives on the Engine's thread, so a
\* connected signal posts the call.
cleanup(c, a) ==
    [c EXCEPT !.nCleanupCalls = @ + 1,
              !.cleanupQueue = IF c.initCleanupConnected THEN Append(@, a) ELSE @]

\* firewallController_->enableFirewallOnBoot(true): the firewall stays as it is.
firewallKeptOnBoot(c) == [c EXCEPT !.firewallOnBoot = TRUE]

\* firewallController_->enableFirewallOnBoot(false) and firewallOff().
firewallOffNoBoot(c) == [c EXCEPT !.firewallOnBoot = FALSE, !.fw = "off"]

\* The exit policy that does not look at launch-on-start.
exitFirewallPolicy_noLaunchOnStart(c, a) ==
    LET c1 == [c EXCEPT !.teardown.fw = @ + 1,
                        !.teardown.log = Append(@, "firewall")]
    IN  IF a.isFirewallChecked
        THEN IF a.isFirewallAlwaysOn
             THEN firewallKeptOnBoot(c1)
             ELSE firewallOffNoBoot(c1)
        ELSE firewallOffNoBoot(c1)

\* cleanupImpl, the exit policy of the firewall (Linux build).
exitFirewallPolicy(c, a) ==
    LET c1 == [c EXCEPT !.teardown.fw = @ + 1,
                        !.teardown.log = Append(@, "firewall")]
    IN  IF a.isFirewallChecked
        THEN IF a.isExitWithRestart
             THEN IF a.isLaunchOnStart
                  THEN firewallKeptOnBoot(c1)
                  ELSE IF a.isFirewallAlwaysOn
                       THEN firewallKeptOnBoot(c1)
                       ELSE firewallOffNoBoot(c1)
             ELSE IF a.isFirewallAlwaysOn
                  THEN firewallKeptOnBoot(c1)
                  ELSE firewallOffNoBoot(c1)
        ELSE firewallOffNoBoot(c1)

\* cleanupImpl from the return of connectionManager_->blockingDisconnect() to
\* its end: split tunneling off, sharing stopped, the exit policy of the
\* firewall, the release; every use of a component is guarded by its pointer.
cleanupImpl_rest(c, a) ==
    LET alive == c.components = "alive"
        c1 == [c EXCEPT !.teardown.split = IF alive THEN @ + 1 ELSE @,
                        !.teardown.log = @ \o (IF alive THEN <<"split">> ELSE <<>>)
                                           \o (IF alive /\ ~a.isExitWithRestart
                                               THEN <<"sharing">> ELSE <<>>),
                        !.vpnShare = IF alive /\ ~a.isExitWithRestart THEN FALSE ELSE @]
        c2 == IF alive THEN exitFirewallPolicy(c1, a) ELSE c1
    IN  [c2 EXCEPT !.components = "deleted",
                   !.teardown.rel = IF alive THEN @ + 1 ELSE @,
                   !.teardown.fin = @ + 1,
                   !.teardown.log = @ \o (IF alive THEN <<"release">> ELSE <<>>)
                                      \o <<"finished", "stop">>,
                   !.isCleanupFinished_ = TRUE,
                   !.initCleanupConnected = FALSE,
                   !.queue = <<>>,
                   !.cleanupQueue = <<>>,
                   !.thread = IF @ = "running" THEN "quit" ELSE @]

\* cleanupImpl from its start, through emergencyController_->blockingDisconnect(),
\* to the call of connectionManager_->blockingDisconnect(), which processes the
\* posted events of the thread while it waits.
cleanupImpl_enter(c0, a) ==
    LET c == [c0 EXCEPT !.initCleanupConnected = FALSE]
    IN  IF c.isCleanupFinished_
        THEN c
        ELSE LET c1 == [c EXCEPT !.credsSub = FALSE, !.fetching = FALSE]
             IN  IF c1.components = "alive"
                 THEN [c1 EXCEPT !.teardown.em = @ + 1,
                                 !.teardown.cm = @ + 1,
                                 !.teardown.log = @ \o <<"emergency", "primaryStart">>,
                                 !.cleanupStack = <<a>> \o @]
                 ELSE cleanupImpl_rest(c1, a)

\* connectionManager_->blockingDisconnect() returns into the cleanupImpl on top.
cleanupImpl_return(c) ==
    cleanupImpl_rest([c EXCEPT !.cleanupStack = Tail(@),
                               !.teardown.log = Append(@, "primaryEnd"),
                               !.cm = IF c.components = "alive" THEN "idle" ELSE @],
                     Head(c.cleanupStack))

\* ---------------------------------------------------------------- steps

\* The state after init(): disconnected, nothing posted, the firewall as the
\* last run left it, the settings as stored.
InitRecord(fw0, mode, when) ==
    [state |-> "Disconnected", stReason |-> "DISCONNECTED_ITSELF", stErr |-> "NO_CONNECT_ERROR",
     lastSet |-> <<"Disconnected", "Disconnected">>, queue |-> <<>>, guiPc |-> "idle",
     locationId_ |-> "A", isBlockConnect_ |-> FALSE, senderSource |-> "",
     cm |-> "idle", cmLoc |-> "A", cmEmitAuth |-> FALSE, fw |-> fw0,
     fwMode |-> mode, fwWhen |-> when, dns |-> "disc", connectingIp |-> FALSE,
     credsSub |-> FALSE, fetching |-> FALSE, pendingUi |-> "none",
     needReconnect |-> FALSE, stored |-> {}, firedBefore |-> FALSE,
     firedAfter |-> FALSE, autoRetries |-> 0, rc |-> NoRc, nCommands |-> 0,
     signedOut |-> FALSE, curNetwork |-> "net1", cmSettingsNetwork |-> "net1",
     whitelist |-> {}, helperFails |-> FALSE,
     tunnelTests |-> FALSE, connectionSettingsOverride_ |-> AutomaticSettings,
     cmSettings |-> NetworkSettings,
     packetSize_ |-> [isAutomatic |-> TRUE, mtu |-> -1],
     extraConfig |-> [wireguard |-> NoMtuOffset, ikev2 |-> NoMtuOffset, remoteIp |-> ""],
     firewallExceptions_ |-> NoExceptions, isAllowLanTraffic |-> FALSE,
     emergency |-> [state |-> "Disconnected", ctl |-> "idle"],
     apiResourcesManager_ |-> [st |-> "in", loadFromSettings |-> TRUE],
     vpnAdapter |-> [protocol |-> "openvpn", mtu |-> DefaultMtu],
     hist |-> NoHist]

Is(r) ==
    /\ state = r.state
    /\ stReason = r.stReason
    /\ stErr = r.stErr
    /\ lastSet = r.lastSet
    /\ queue = r.queue
    /\ guiPc = r.guiPc
    /\ locationId_ = r.locationId_
    /\ isBlockConnect_ = r.isBlockConnect_
    /\ senderSource = r.senderSource
    /\ cm = r.cm
    /\ cmLoc = r.cmLoc
    /\ cmEmitAuth = r.cmEmitAuth
    /\ fw = r.fw
    /\ fwMode = r.fwMode
    /\ fwWhen = r.fwWhen
    /\ dns = r.dns
    /\ connectingIp = r.connectingIp
    /\ credsSub = r.credsSub
    /\ fetching = r.fetching
    /\ pendingUi = r.pendingUi
    /\ needReconnect = r.needReconnect
    /\ stored = r.stored
    /\ firedBefore = r.firedBefore
    /\ firedAfter = r.firedAfter
    /\ autoRetries = r.autoRetries
    /\ rc = r.rc
    /\ nCommands = r.nCommands
    /\ signedOut = r.signedOut
    /\ curNetwork = r.curNetwork
    /\ cmSettingsNetwork = r.cmSettingsNetwork
    /\ whitelist = r.whitelist
    /\ helperFails = r.helperFails
    /\ tunnelTests = r.tunnelTests
    /\ connectionSettingsOverride_ = r.connectionSettingsOverride_
    /\ cmSettings = r.cmSettings
    /\ packetSize_ = r.packetSize_
    /\ extraConfig = r.extraConfig
    /\ vpnAdapter = r.vpnAdapter
    /\ firewallExceptions_ = r.firewallExceptions_
    /\ isAllowLanTraffic = r.isAllowLanTraffic
    /\ emergency = r.emergency
    /\ apiResourcesManager_ = r.apiResourcesManager_
    /\ hist = r.hist

\* init(): isCleanupFinished_ = false, initCleanup connected to cleanupImpl.
CleanupVarsInit ==
    /\ initCleanupConnected = TRUE
    /\ cleanupQueue = <<>>
    /\ cleanupStack = <<>>
    /\ isCleanupFinished_ = FALSE
    /\ components = "alive"
    /\ thread = "running"
    /\ firewallOnBoot \in BOOLEAN
    /\ vpnShare \in BOOLEAN
    /\ teardown = [em |-> 0, cm |-> 0, split |-> 0, fw |-> 0, rel |-> 0, fin |-> 0,
                   log |-> <<>>]
    /\ nCleanupCalls = 0

Init ==
    /\ \E fw0 \in {"off", "pre"}, mode \in {"manual", "automatic"}, when \in {"before", "after"} :
          Is(InitRecord(fw0, mode, when))
    /\ CleanupVarsInit
    /\ firewallOnBoot = FALSE
    /\ vpnShare = FALSE

\* The caller's thread.
GuiFree == guiPc = "idle" /\ Len(queue) < MaxQueue /\ nCommands < MaxCommands

ConnectClick ==
    \E loc \in Locations : GuiFree /\ Commit(connectClick(Cur, loc, AutomaticSettings))

DisconnectClick_test1 == GuiFree /\ Commit(disconnectClick_test1(Cur))

DisconnectClick_test2 == guiPc = "dc2" /\ Commit(disconnectClick_test2(Cur))

DisconnectClick_set == guiPc = "dcSet" /\ Commit(disconnectClick_set(Cur))

SetBlockConnect ==
    \E b \in BOOLEAN : GuiFree /\ b # isBlockConnect_ /\ Commit(setBlockConnect(Cur, b))

ContinueWith ==
    \E isEmpty, bSave \in BOOLEAN :
        /\ GuiFree
        /\ pendingUi # "none"
        /\ Commit(continueWith(Cur, pendingUi, isEmpty, bSave))

\* The Engine's thread: the posted slots, oldest first.
Taken == [Cur EXCEPT !.queue = Tail(@), !.hist.locFailed = FALSE,
                     !.hist.notAllowedAfter = FALSE]

RunConnectClickImpl ==
    /\ queue # <<>>
    /\ Head(queue).op = "connectClickImpl"
    /\ Commit(connectClickImpl([Taken EXCEPT !.hist.cs = IF hist.watch THEN Head(queue).cs
                                                         ELSE ""],
                                Head(queue).loc, Head(queue).cs))

RunDisconnectClickImpl ==
    /\ queue # <<>>
    /\ Head(queue).op = "disconnectClickImpl"
    /\ Commit(disconnectClickImpl(Taken))

RunContinueWithImpl ==
    /\ queue # <<>>
    /\ Head(queue).op = "continueWithImpl"
    /\ Commit(continueWithImpl(Taken, Head(queue).kind, Head(queue).isEmpty, Head(queue).bSave))

\* The Engine's thread: the signals of the ConnectionManager.
CmConnectingToHostname ==
    /\ cm = "connecting"
    /\ Commit(onConnectionManagerConnectingToHostname(Cur))

CmConnected ==
    \E allow \in BOOLEAN :
        /\ cm = "connecting"
        /\ allow \/ isCustomConfigsLocation(cmLoc)
        /\ Commit(onConnectionManagerConnected([Cur EXCEPT !.cm = "connected"], allow))

CmRequest ==
    \E kind \in CredKinds :
        /\ cm = "connecting"
        /\ isCustomConfigsLocation(cmLoc)
        /\ Commit(onConnectionManagerRequest([Cur EXCEPT !.cm = "waitUser"], kind))

CmError ==
    \E err \in DriverErrors :
        /\ cm = "connecting"
        /\ err = "AUTH_ERROR" => cmEmitAuth
        /\ err = "PRIV_KEY_PASSWORD_ERROR" => isCustomConfigsLocation(cmLoc)
        /\ Commit(onConnectionManagerError([Cur EXCEPT !.cm = "idle",
                                                       !.hist.err = IF hist.watch THEN err
                                                                    ELSE ""],
                                           err))

CmReconnecting ==
    /\ cm = "connected"
    /\ Commit(onConnectionManagerReconnecting(
                 [Cur EXCEPT !.cm = "connecting",
                             !.tunnelTests = FALSE,
                             !.hist.notAllowedAfter = FALSE,
                             !.rc = IF @.ph = "issued" THEN NoRc ELSE @]))

CmDisconnected ==
    \E reason \in {"DISCONNECTED_BY_USER", "DISCONNECTED_ITSELF"} :
        /\ \/ cm = "disconnecting" /\ reason = "DISCONNECTED_BY_USER"
           \/ cm = "connecting" /\ reason = "DISCONNECTED_ITSELF"
        /\ Commit(onConnectionManagerDisconnected([Cur EXCEPT !.cm = "idle"], reason))

\* The Engine's thread: the signal of the ApiResourcesManager.
FetchDone == [Cur EXCEPT !.fetching = FALSE, !.hist.discDuringRefetch = FALSE]

ApiServerCredentialsFetched ==
    /\ fetching
    /\ Commit(IF credsSub
              THEN onApiResourcesManagerServerCredentialsFetched(FetchDone)
              ELSE FetchDone)

\* The caller's thread: cleanup().
Cleanup ==
    \E a \in CleanupArgs :
        /\ nCleanupCalls < MaxCleanupCalls
        /\ CleanupCommit(cleanup(CleanupCur, a))

\* The Engine's thread takes a posted cleanupImpl: from its event loop, or from
\* inside connectionManager_->blockingDisconnect().
CleanupImplBegin ==
    /\ cleanupQueue # <<>>
    /\ thread # "crashed"
    /\ cleanupStack = <<>> => thread = "running"
    /\ CleanupCommit(cleanupImpl_enter([CleanupCur EXCEPT !.cleanupQueue = Tail(@)],
                                        Head(cleanupQueue)))

\* blockingDisconnect() returns.  When a cleanupImpl that ran inside it has
\* deleted the ConnectionManager, the return runs in a deleted object: the
\* thread crashes, or goes on.
CleanupImplReturn ==
    /\ cleanupStack # <<>>
    /\ thread # "crashed"
    /\ \/ CleanupCommit(cleanupImpl_return(CleanupCur))
       \/ /\ components = "deleted"
          /\ CleanupCommit([CleanupCur EXCEPT !.thread = "crashed"])

\* The caller's thread: signOut().
SignOut ==
    \E keepFirewallOn \in BOOLEAN :
        /\ GuiFree
        /\ hist.nSignOut < MaxSignOuts
        /\ Commit(signOut(Cur, keepFirewallOn))

RunSignOutImpl ==
    /\ queue # <<>>
    /\ Head(queue).op = "signOutImpl"
    /\ Commit(signOutImpl(Taken, Head(queue).bSave))

Next ==
    \/ ConnectClick
    \/ DisconnectClick_test1
    \/ DisconnectClick_test2
    \/ DisconnectClick_set
    \/ SetBlockConnect
    \/ ContinueWith
    \/ RunConnectClickImpl
    \/ RunDisconnectClickImpl
    \/ RunContinueWithImpl
    \/ CmConnectingToHostname
    \/ CmConnected
    \/ CmRequest
    \/ CmError
    \/ CmReconnecting
    \/ CmDisconnected
    \/ ApiServerCredentialsFetched

Spec == Init /\ [][Next]_vars

\* The state after connect(A) went through: the command, its slot, the
\* connectingToHostname and connected events.
ConnectedRecord(r) ==
    LET s1 == connectClick(r, "A", AutomaticSettings)
        s2 == connectClickImpl([s1 EXCEPT !.queue = Tail(@)], "A", AutomaticSettings)
        s3 == onConnectionManagerConnectingToHostname(s2)
    IN  onConnectionManagerConnected([s3 EXCEPT !.cm = "connected"], TRUE)

\* Shutdown, from the disconnected and from the connected state.
CleanupInit ==
    /\ \E fw0 \in {"off", "pre"}, mode \in {"manual", "automatic"}, connected \in BOOLEAN :
          Is(IF connected THEN ConnectedRecord(InitRecord(fw0, mode, "before"))
                          ELSE InitRecord(fw0, mode, "before"))
    /\ CleanupVarsInit

CleanupNext ==
    \/ Cleanup
    \/ CleanupImplBegin
    \/ CleanupImplReturn

CleanupSpec == CleanupInit /\ [][CleanupNext]_vars

\* The connection commands with a static IPs location among the targets, the
\* firewall automatic, "after connection", and off at the start.
ConnectClickStaticIps ==
    GuiFree /\ Commit(connectClick(Cur, StaticIpsLocation, AutomaticSettings))

StaticIpsInit ==
    /\ Is(InitRecord("off", "automatic", "after"))
    /\ CleanupVarsInit
    /\ firewallOnBoot = FALSE
    /\ vpnShare = FALSE

StaticIpsNext ==
    \/ ConnectClick
    \/ ConnectClickStaticIps
    \/ DisconnectClick_test1
    \/ DisconnectClick_test2
    \/ DisconnectClick_set
    \/ SetBlockConnect
    \/ ContinueWith
    \/ RunConnectClickImpl
    \/ RunDisconnectClickImpl
    \/ RunContinueWithImpl
    \/ CmConnectingToHostname
    \/ CmConnected
    \/ CmRequest
    \/ CmError
    \/ CmReconnecting
    \/ CmDisconnected
    \/ ApiServerCredentialsFetched

StaticIpsSpec == StaticIpsInit /\ [][StaticIpsNext]_vars

\* The connection commands together with the changes of the network.
NetworkChange ==
    \E n \in Networks : n # curNetwork /\ Commit(onNetworkChange(Cur, n))

NetworkInit ==
    /\ Is(InitRecord("off", "manual", "before"))
    /\ CleanupVarsInit
    /\ firewallOnBoot = FALSE
    /\ vpnShare = FALSE

NetworkNext ==
    \/ NetworkChange
    \/ ConnectClick
    \/ DisconnectClick_test1
    \/ DisconnectClick_test2
    \/ DisconnectClick_set
    \/ ContinueWith
    \/ RunConnectClickImpl
    \/ RunDisconnectClickImpl
    \/ RunContinueWithImpl
    \/ CmConnectingToHostname
    \/ CmConnected
    \/ CmRequest
    \/ CmError
    \/ CmReconnecting
    \/ CmDisconnected
    \/ ApiServerCredentialsFetched

NetworkSpec == NetworkInit /\ [][NetworkNext]_vars

\* The connection commands together with signOut.
SignOutInit ==
    /\ \E mode \in {"manual", "automatic"} : Is(InitRecord("off", mode, "before"))
    /\ CleanupVarsInit
    /\ firewallOnBoot = FALSE
    /\ vpnShare = FALSE

SignOutNext ==
    \/ ConnectClick
    \/ DisconnectClick_test1
    \/ DisconnectClick_test2
    \/ DisconnectClick_set
    \/ SetBlockConnect
    \/ ContinueWith
    \/ SignOut
    \/ RunConnectClickImpl
    \/ RunDisconnectClickImpl
    \/ RunContinueWithImpl
    \/ RunSignOutImpl
    \/ CmConnectingToHostname
    \/ CmConnected
    \/ CmRequest
    \/ CmError
    \/ CmReconnecting
    \/ CmDisconnected
    \/ ApiServerCredentialsFetched

SignOutSpec == SignOutInit /\ [][SignOutNext]_vars

\* The connection commands together with the results of the tunnel tests.
CmTestTunnelResult ==
    \E success \in BOOLEAN :
        /\ cm = "connected"
        /\ tunnelTests
        /\ Commit(onConnectionManagerTestTunnelResult([Cur EXCEPT !.tunnelTests = FALSE],
                                                      success))

TunnelTestsNext ==
    \/ CmTestTunnelResult
    \/ ConnectClick
    \/ DisconnectClick_test1
    \/ DisconnectClick_test2
    \/ DisconnectClick_set
    \/ SetBlockConnect
    \/ ContinueWith
    \/ RunConnectClickImpl
    \/ RunDisconnectClickImpl
    \/ RunContinueWithImpl
    \/ CmConnectingToHostname
    \/ CmConnected
    \/ CmRequest
    \/ CmError
    \/ CmReconnecting
    \/ CmDisconnected
    \/ ApiServerCredentialsFetched

TunnelTestsSpec == Init /\ [][TunnelTestsNext]_vars

\* The connection commands together with the firewall commands, the firewall
\* automatic and "before connection".
FirewallOn == GuiFree /\ fw = "off" /\ Commit(firewallOn(Cur))

FirewallOff == GuiFree /\ fw # "off" /\ Commit(firewallOff(Cur))

RunFirewallOnImpl ==
    /\ queue # <<>>
    /\ Head(queue).op = "firewallOnImpl"
    /\ Commit(firewallOnImpl(Taken))

RunFirewallOffImpl ==
    /\ queue # <<>>
    /\ Head(queue).op = "firewallOffImpl"
    /\ Commit(firewallOffImpl(Taken))

FirewallCommandsInit ==
    /\ \E fw0 \in {"off", "pre"} : Is(InitRecord(fw0, "automatic", "before"))
    /\ CleanupVarsInit
    /\ firewallOnBoot = FALSE
    /\ vpnShare = FALSE

FirewallCommandsNext ==
    \/ FirewallOn
    \/ FirewallOff
    \/ RunFirewallOnImpl
    \/ RunFirewallOffImpl
    \/ ConnectClick
    \/ DisconnectClick_test1
    \/ DisconnectClick_test2
    \/ DisconnectClick_set
    \/ SetBlockConnect
    \/ ContinueWith
    \/ RunConnectClickImpl
    \/ RunDisconnectClickImpl
    \/ RunContinueWithImpl
    \/ CmConnectingToHostname
    \/ CmConnected
    \/ CmRequest
    \/ CmError
    \/ CmReconnecting
    \/ CmDisconnected
    \/ ApiServerCredentialsFetched

FirewallCommandsSpec == FirewallCommandsInit /\ [][FirewallCommandsNext]_vars

\* The connection commands with a helper whose sendConnectStatus fails.
HelperFailsInit ==
    /\ \E fw0 \in {"off", "pre"}, mode \in {"manual", "automatic"}, when \in {"before", "after"} :
          Is([InitRecord(fw0, mode, when) EXCEPT !.helperFails = TRUE])
    /\ CleanupVarsInit
    /\ firewallOnBoot = FALSE
    /\ vpnShare = FALSE

HelperFailsSpec == HelperFailsInit /\ [][Next]_vars

\* The connection commands, and the connection commands together with signOut,
\* with the last event kept in hist.
WatchedInit ==
    /\ \E fw0 \in {"off", "pre"}, mode \in {"manual", "automatic"}, when \in {"before", "after"} :
          Is([InitRecord(fw0, mode, when) EXCEPT !.hist.watch = TRUE])
    /\ CleanupVarsInit
    /\ firewallOnBoot = FALSE
    /\ vpnShare = FALSE

WatchedSpec == WatchedInit /\ [][Next]_vars

WatchedSignOutInit ==
    /\ \E mode \in {"manual", "automatic"} :
          Is([InitRecord("off", mode, "before") EXCEPT !.hist.watch = TRUE])
    /\ CleanupVarsInit
    /\ firewallOnBoot = FALSE
    /\ vpnShare = FALSE

WatchedSignOutSpec == WatchedSignOutInit /\ [][SignOutNext]_vars

\* The connection commands together with signOut and with connect commands
\* that carry explicit connection settings, the last event kept in hist.
ConnectClickOverride ==
    \E loc \in {"A", "K"} : GuiFree /\ Commit(connectClick(Cur, loc, ExplicitSettings))

OverrideInit ==
    /\ Is([InitRecord("off", "manual", "before") EXCEPT !.hist.watch = TRUE])
    /\ CleanupVarsInit
    /\ firewallOnBoot = FALSE
    /\ vpnShare = FALSE

OverrideNext ==
    \/ ConnectClickOverride
    \/ ConnectClick
    \/ DisconnectClick_test1
    \/ DisconnectClick_test2
    \/ DisconnectClick_set
    \/ ContinueWith
    \/ SignOut
    \/ RunConnectClickImpl
    \/ RunDisconnectClickImpl
    \/ RunContinueWithImpl
    \/ RunSignOutImpl
    \/ CmConnectingToHostname
    \/ CmConnected
    \/ CmRequest
    \/ CmError
    \/ CmReconnecting
    \/ CmDisconnected
    \/ ApiServerCredentialsFetched

OverrideSpec == OverrideInit /\ [][OverrideNext]_vars

\* The connections to one location with every protocol, packet size and MTU
\* offset.
MtuValues == {60, 80, 81}

MtuOffset(offset) == [given |-> TRUE, offset |-> offset]

PacketSizeChanged ==
    \E isAuto \in BOOLEAN, mtu \in MtuValues :
        /\ packetSize_ # [isAutomatic |-> isAuto, mtu |-> mtu]
        /\ Commit(onPacketSizeControllerPacketSizeChanged(Cur, isAuto, mtu))

MtuInit ==
    /\ \E protocol \in Protocols, wg \in {NoMtuOffset, MtuOffset(60)},
          ikev2 \in {NoMtuOffset, MtuOffset(100)} :
          Is([InitRecord("off", "manual", "before") EXCEPT
                  !.vpnAdapter.protocol = protocol,
                  !.extraConfig.wireguard = wg,
                  !.extraConfig.ikev2 = ikev2])
    /\ CleanupVarsInit
    /\ firewallOnBoot = FALSE
    /\ vpnShare = FALSE

MtuNext ==
    \/ PacketSizeChanged
    \/ ConnectClickStaticIps
    \/ DisconnectClick_test1
    \/ DisconnectClick_test2
    \/ DisconnectClick_set
    \/ RunConnectClickImpl
    \/ RunDisconnectClickImpl
    \/ CmConnectingToHostname
    \/ CmConnected
    \/ CmReconnecting
    \/ CmDisconnected

MtuSpec == MtuInit /\ [][MtuNext]_vars

\* cleanupImpl has been entered: "Cleanup started" is logged, or the repeated
\* call has returned at its guard.
\* The updates of the firewall's exceptions among the connection and firewall
\* commands: an extra config with and without a remote ip, the firewall on or
\* off at the start, automatic or manual.
IpSets == {{}, {"ip1"}}

ProxyIPs == {"", "proxy1"}

HostIPsChanged ==
    \E hostIps \in IpSets :
        /\ hostIps # firewallExceptions_.hostIPs
        /\ Commit(onHostIPsChanged(Cur, hostIps))

WhitelistIpsChanged ==
    \E ips \in IpSets :
        /\ ips # firewallExceptions_.locationsPingIps
        /\ Commit(onLocationsModelWhitelistIpsChanged(Cur, ips))

WhitelistCustomConfigIpsChanged ==
    \E ips \in IpSets :
        /\ ips # firewallExceptions_.customConfigPingIps
        /\ Commit(onLocationsModelWhitelistCustomConfigIpsChanged(Cur, ips))

\* setSettings: the slot setSettingsImpl, run on the Engine's thread.
SetSettings ==
    \E allowLanTraffic \in BOOLEAN, proxyIP \in ProxyIPs :
        /\ allowLanTraffic # isAllowLanTraffic \/ proxyIP # firewallExceptions_.proxyIP
        /\ Commit(setSettingsImpl(Cur, allowLanTraffic, proxyIP))

\* connectClick for the custom config.
ConnectClickCustomConfig ==
    GuiFree /\ Commit(connectClick(Cur, "K", AutomaticSettings))

FirewallUpdateInit ==
    /\ \E fw0 \in {"off", "pre"}, mode \in {"manual", "automatic"}, remoteIp \in {"", "ip1"} :
           Is([InitRecord(fw0, mode, "before") EXCEPT !.extraConfig.remoteIp = remoteIp])
    /\ CleanupVarsInit
    /\ firewallOnBoot = FALSE
    /\ vpnShare = FALSE

FirewallUpdateNext ==
    \/ HostIPsChanged
    \/ WhitelistIpsChanged
    \/ WhitelistCustomConfigIpsChanged
    \/ SetSettings
    \/ FirewallOn
    \/ FirewallOff
    \/ RunFirewallOnImpl
    \/ RunFirewallOffImpl
    \/ ConnectClickCustomConfig
    \/ RunConnectClickImpl
    \/ CmConnectingToHostname
    \/ CmConnected
    \/ CmDisconnected

FirewallUpdateSpec == FirewallUpdateInit /\ [][FirewallUpdateNext]_vars

\* The connection commands, the firewall commands and the sign-out in manual
\* firewall mode, the firewall on or off at the start.
ManualModeInit ==
    /\ \E fw0 \in {"off", "pre"}, when \in {"before", "after"} :
           Is(InitRecord(fw0, "manual", when))
    /\ CleanupVarsInit
    /\ firewallOnBoot = FALSE
    /\ vpnShare = FALSE

ManualModeNext ==
    \/ FirewallOn
    \/ FirewallOff
    \/ RunFirewallOnImpl
    \/ RunFirewallOffImpl
    \/ ConnectClick
    \/ DisconnectClick_test1
    \/ DisconnectClick_test2
    \/ DisconnectClick_set
    \/ SignOut
    \/ RunConnectClickImpl
    \/ RunDisconnectClickImpl
    \/ RunSignOutImpl
    \/ CmConnectingToHostname
    \/ CmConnected
    \/ CmError
    \/ CmReconnecting
    \/ CmDisconnected

ManualModeSpec == ManualModeInit /\ [][ManualModeNext]_vars

\* The emergency connection and the login among the connection commands: the
\* Engine logged in, not logged in with a session in the settings or without,
\* or waiting for the API resources.
EmergencyConnectClick ==
    GuiFree /\ emergency.state = "Disconnected" /\ Commit(emergencyConnectClick(Cur))

EmergencyDisconnectClick ==
    GuiFree /\ emergency.state \in {"Connecting", "Connected"}
            /\ Commit(emergencyDisconnectClick(Cur))

RunEmergencyConnectClickImpl ==
    /\ queue # <<>>
    /\ Head(queue).op = "emergencyConnectClickImpl"
    /\ Commit(emergencyConnectClickImpl(Taken))

RunEmergencyDisconnectClickImpl ==
    /\ queue # <<>>
    /\ Head(queue).op = "emergencyDisconnectClickImpl"
    /\ Commit(emergencyDisconnectClickImpl(Taken))

\* The signals of the EmergencyController.
EmConnected ==
    /\ emergency.ctl = "connecting"
    /\ Commit(onEmergencyControllerConnected([Cur EXCEPT !.emergency.ctl = "connected"]))

EmDisconnected ==
    /\ emergency.ctl = "disconnecting"
    /\ Commit(onEmergencyControllerDisconnected([Cur EXCEPT !.emergency.ctl = "idle"]))

EmError ==
    /\ emergency.ctl = "connecting"
    /\ Commit(onEmergencyControllerError([Cur EXCEPT !.emergency.ctl = "idle"]))

LoginWithAuthHash ==
    GuiFree /\ apiResourcesManager_.st = "none" /\ Commit(loginWithAuthHash(Cur))

RunLoginImpl ==
    /\ queue # <<>>
    /\ Head(queue).op = "loginImpl"
    /\ Commit(loginImpl(Taken))

ApiReadyForLogin ==
    /\ apiResourcesManager_.st = "pending"
    /\ Commit(onApiResourcesManagerReadyForLogin(Cur))

EmergencyInit ==
    /\ \E api \in {[st |-> "in", loadFromSettings |-> TRUE],
                     [st |-> "none", loadFromSettings |-> TRUE],
                     [st |-> "none", loadFromSettings |-> FALSE],
                     [st |-> "pending", loadFromSettings |-> FALSE]} :
           Is([InitRecord("off", "manual", "before") EXCEPT
                   !.apiResourcesManager_ = api,
                   !.signedOut = api.st # "in"])
    /\ CleanupVarsInit
    /\ firewallOnBoot = FALSE
    /\ vpnShare = FALSE

EmergencyNext ==
    \/ EmergencyConnectClick
    \/ EmergencyDisconnectClick
    \/ RunEmergencyConnectClickImpl
    \/ RunEmergencyDisconnectClickImpl
    \/ EmConnected
    \/ EmDisconnected
    \/ EmError
    \/ LoginWithAuthHash
    \/ RunLoginImpl
    \/ ApiReadyForLogin
    \/ ConnectClick
    \/ DisconnectClick_test1
    \/ DisconnectClick_test2
    \/ DisconnectClick_set
    \/ RunConnectClickImpl
    \/ RunDisconnectClickImpl
    \/ CmConnectingToHostname
    \/ CmConnected
    \/ CmReconnecting
    \/ CmDisconnected

EmergencySpec == EmergencyInit /\ [][EmergencyNext]_vars

cleanupStarted == teardown.em > 0 \/ isCleanupFinished_

\* The Engine's thread processes posted slots from its event loop and from
\* inside connectionManager_->blockingDisconnect(), until thread()->quit().
ThreadProcessesEvents == thread = "running" /\ components = "alive"

\* One call of cleanup().
SingleCleanup == nCleanupCalls = 0 /\ Cleanup

\* The commands of the caller's thread that arrive after cleanupImpl started.
LateConnectClick == cleanupStarted /\ ConnectClick

LateDisconnectClick_test1 == cleanupStarted /\ DisconnectClick_test1

LateRunConnectClickImpl == ThreadProcessesEvents /\ RunConnectClickImpl

LateRunDisconnectClickImpl == ThreadProcessesEvents /\ RunDisconnectClickImpl

\* Shutdown with the caller's thread still issuing commands.
ShutdownNext ==
    \/ SingleCleanup
    \/ CleanupImplBegin
    \/ CleanupImplReturn
    \/ LateConnectClick
    \/ LateDisconnectClick_test1
    \/ DisconnectClick_test2
    \/ DisconnectClick_set
    \/ LateRunConnectClickImpl
    \/ LateRunDisconnectClickImpl

ShutdownInit == CleanupInit /\ ~firewallOnBoot /\ ~vpnShare

ShutdownSpec == ShutdownInit /\ [][ShutdownNext]_vars

\* --------------------------------------------------------------- claims

\* The Engine's thread and its components have nothing left to do.
Quiescent ==
    /\ queue = <<>>
    /\ guiPc = "idle"
    /\ cm \in {"idle", "waitUser"}
    /\ ~fetching

C2_Original ==
    /\ rc.ph \notin {"early", "disc"}
    /\ rc.ph = "done" => rc.nDisc = 1 /\ cmLoc = rc.to /\ rc.sawDisc

\* C2, amended: connect(B) while Connected to A makes one disconnect request,
\* then one clickConnect for B when the disconnected event is handled; the
\* state goes from Connected to Connecting at the command and passes through
\* neither Disconnecting nor Disconnected.
C2_Amended ==
    /\ rc.ph \notin {"early", "disc"}
    /\ rc.ph = "issued" => /\ queue # <<>> \/ cm = "disconnecting"
                           /\ state = "Connecting"
    /\ rc.ph = "done" => rc.nDisc = 1 /\ cmLoc = rc.to /\ ~rc.sawDisc

C2_Witness == rc.ph = "done" /\ state = "Connecting" /\ cm = "connecting"

\* C3: disconnectClick called while the state is Disconnected changes no
\* state, posts no slot and touches neither the firewall nor the DNS.
C3_NoEffect ==
    [][(state = "Disconnected" /\ guiPc \in {"idle", "dc2"} /\ guiPc' # guiPc) =>
         /\ guiPc' # "dcSet"
         /\ UNCHANGED <<state, stReason, stErr, lastSet, queue, locationId_,
                         isBlockConnect_, senderSource, cm, cmLoc, cmEmitAuth, fw, dns,
                         connectingIp, credsSub, fetching, needReconnect, stored>>]_vars

C3_Witness == state = "Disconnected" /\ guiPc = "dc2"

\* C4: in a connection that reached Connected, at most one of the automatic
\* firewall enables (before connection, after connection) ran since the connect
\* command, and the one that ran is the configured one.
C4_Exclusive ==
    state = "Connected" =>
        /\ ~(firedBefore /\ firedAfter)
        /\ firedBefore => fwMode = "automatic" /\ fwWhen = "before"
        /\ firedAfter => fwMode = "automatic" /\ fwWhen = "after"
        /\ fwMode = "manual" => ~firedBefore /\ ~firedAfter

C4_Witness == state = "Connected" /\ firedAfter /\ fw = "conn"

C6_TeardownOnce ==
    /\ teardown.em <= 1
    /\ teardown.cm <= 1
    /\ teardown.split <= 1
    /\ teardown.fw <= 1
    /\ teardown.rel <= 1
    /\ teardown.fin <= 1
    /\ thread # "crashed"

\* C7: the state does not stay Connecting with nothing left to happen unless a
\* credential request to the user is outstanding.
C7_NoStuckConnecting ==
    (state = "Connecting" /\ Quiescent) => pendingUi # "none"

\* C8: after a disconnect command the state does not stay Disconnecting with
\* nothing left to happen.
C8_Honoured ==
    ~(state = "Disconnecting" /\ Quiescent)

\* C9: every state change the Engine asks of the controller is one of the six
\* of section 4.1, or the Connecting -> Disconnecting of section 5.
C9_OnlyListed ==
    lastSet \in LegalTransitions \cup {<<"Disconnected", "Disconnected">>}

\* C10: when disconnectClick sets Disconnecting, the state is still the
\* Connected or Connecting that it read.
C10_AtomicReadSet ==
    guiPc = "dcSet" => state \in {"Connected", "Connecting"}


\* C11: a command submitted after the cleanup sequence has started is ignored:
\* it changes no ConnectState, asks no state change of the controller, and the
\* slot it would post is never run.
C11_LateCommandsIgnored ==
    [][cleanupStarted =>
         /\ (nCommands' > nCommands \/ guiPc # guiPc') =>
                UNCHANGED <<state, stReason, stErr, lastSet>>
         /\ Len(queue') < Len(queue) => queue' = <<>>]_vars

\* C12: a signOut that has been issued and has not finished is still on its
\* way: its slot is posted, or its tag is on the disconnect request that the
\* ConnectionManager is carrying out; so signOutFinished can still follow.
C12_SignOutNotLost ==
    hist.nSignOut > hist.nSignOutFinished =>
        \/ \E i \in 1..Len(queue) : queue[i].op = "signOutImpl"
        \/ /\ senderSource \in {"signOutImpl", "signOutImplKeepFirewallOn"}
           /\ cm = "disconnecting"

\* C13: the sender source is on the ConnectionManager only while the
\* disconnect request it was attached to is being carried out and no
\* disconnected event has read it; a disconnected event never runs a follow-up
\* for a sender source that an earlier disconnected event has read.
C13_TagConsumedOnce ==
    /\ ~hist.staleFollowUp
    /\ senderSource # "" => cm = "disconnecting" /\ hist.tagFresh

C13_Witness ==
    /\ rc.ph = "done"
    /\ senderSource = ""
    /\ ~hist.tagFresh
    /\ cm = "connecting"

\* A posted connectClickImpl is taken with block-connect set and a target that
\* is not a custom config.
BlockedConnectTaken ==
    /\ queue # <<>>
    /\ Head(queue).op = "connectClickImpl"
    /\ queue' = Tail(queue)
    /\ isBlockConnect_
    /\ ~isCustomConfigsLocation(Head(queue).loc)

BlockedAnswer ==
    /\ state # "Disconnected" => lastSet' = <<state, "Disconnected">>
    /\ <<state, "Disconnected">> \in LegalTransitions =>
           /\ state' = "Disconnected"
           /\ stReason' = "DISCONNECTED_WITH_ERROR"
           /\ stErr' = "CONNECTION_BLOCKED"
    /\ <<state, "Disconnected">> \notin LegalTransitions =>
           UNCHANGED <<state, stReason, stErr>>

C15_LocationFailure ==
    /\ LocationExists(cmLoc) /\ isExistSelectedNode(cmLoc)
    /\ hist.locFailed =>
          /\ state = "Disconnected"
          /\ stReason = "DISCONNECTED_WITH_ERROR"
          /\ stErr \in {"LOCATION_NOT_EXIST", "LOCATION_NO_ACTIVE_NODES"}
          /\ cm = "idle"
          /\ ~credsSub

\* C16: with the firewall automatic and "after connection", an attempt for a
\* static IPs location that doConnect started with the firewall off keeps the
\* firewall off while the ConnectionManager is connecting; its connected event
\* turns the firewall on and whitelists the ports of the location's static
\* IPs, and while the connection stands the whitelist is that set of ports.
C16_StaticIpsFirewall ==
    (fwMode = "automatic" /\ fwWhen = "after" /\ isStaticIpsLocation(cmLoc)) =>
        /\ (cm = "connecting" /\ hist.fwOffAtConnect) => fw = "off"
        /\ cm = "connected" => fw = "conn" /\ whitelist = StaticIpsPorts

C16_Witness ==
    /\ fwMode = "automatic"
    /\ fwWhen = "after"
    /\ cmLoc = StaticIpsLocation
    /\ cm = "connected"
    /\ state = "Connected"
    /\ firedAfter
    /\ whitelist = StaticIpsPorts

C18_NetworkChangeFrame ==
    [][curNetwork' # curNetwork =>
         /\ UNCHANGED <<state, stReason, stErr, lastSet, queue, guiPc, locationId_,
                         isBlockConnect_, senderSource, cm, cmLoc, cmEmitAuth, fw, dns,
                         connectingIp, credsSub, fetching, pendingUi, needReconnect,
                         stored, whitelist, signedOut>>
         /\ curNetwork' # "" => cmSettingsNetwork' = curNetwork']_vars

C18_Witness ==
    /\ curNetwork = "net2"
    /\ cmSettingsNetwork = "net2"
    /\ cm = "connected"
    /\ state = "Connected"

\* A posted continueWith...Impl with an empty credential is taken.
EmptyCredentialTaken ==
    /\ queue # <<>>
    /\ Head(queue).op = "continueWithImpl"
    /\ Head(queue).isEmpty
    /\ queue' = Tail(queue)

\* C19: continueWith... with an empty credential is a cancel: the Engine
\* calls clickDisconnect, which ends the attempt that waits; nothing is stored,
\* nothing is handed to the ConnectionManager and no attempt is resumed or
\* started.
C19_EmptyIsCancel ==
    [][EmptyCredentialTaken =>
         /\ cm \in {"waitUser", "connecting", "connected"} => cm' = "disconnecting"
         /\ cm \in {"idle", "disconnecting"} => cm' = cm
         /\ UNCHANGED <<stored, cmLoc, cmEmitAuth, state, senderSource>>]_vars

C19_Witness ==
    /\ cm = "disconnecting"
    /\ isCustomConfigsLocation(cmLoc)
    /\ state = "Connecting"
    /\ senderSource = ""
    /\ pendingUi = "none"
    /\ queue = <<>>

\* C20: once a disconnect request has been handled (the disconnect command,
\* the sign-out, the cancel of a credential request, the disconnect that
\* precedes a reconnect), the completion of a refetch that an earlier auth
\* error started is not delivered to the Engine's slot: it starts no connect.
C20_StaleRefetchUnsubscribed ==
    [][(credsSub /\ fetching /\ ~fetching' /\ hist.discDuringRefetch) =>
          UNCHANGED <<cm, cmLoc, autoRetries>>]_vars

\* C21: the Engine issues clickConnect only while the ConnectionManager is
\* disconnected, on the connect command, on the reconnect after the
\* disconnected event and on the retry after the refetch of the server
\* credentials: no second attempt is started while one is active.
C21_ConnectOnlyWhenDisconnected == ~hist.secondAttempt

\* The retry after the refetch has issued its clickConnect.
C21_Witness == cm = "connecting" /\ autoRetries = 1 /\ ~credsSub /\ ~fetching

\* The steps of the cleanup sequence in their order, with or without the stop
\* of the sharing.
CleanupOrder(sharing) ==
    <<"stop", "emergency", "primaryStart", "primaryEnd", "split">> \o sharing
        \o <<"firewall", "release", "finished">>

IsPrefix(s, u) == Len(s) <= Len(u) /\ SubSeq(u, 1, Len(s)) = s

\* C22: the steps of the cleanup sequence run in this order, each after the
\* one before it has finished: the stop of new commands, the blocking
\* disconnect of the emergency connection, the blocking disconnect of the
\* primary connection, split tunnelling off, the stop of the sharing (left out
\* on an exit with restart), the exit policy of the firewall, the release of
\* the components, the completion.
C22_CleanupOrder ==
    \E sharing \in {<<>>, <<"sharing">>} : IsPrefix(teardown.log, CleanupOrder(sharing))

\* The exit policy of the firewall is applied, for the cleanupImpl call that
\* returns from the blocking disconnect.
ExitPolicyApplied == cleanupStack # <<>> /\ teardown'.fw > teardown.fw

\* C23: in the cleanup, over the 16 combinations of firewall checked, exit
\* with restart, launch on start and always on: the firewall is turned off
\* when it is not checked, or is checked, not always on and not (exit with
\* restart and launch on start); in every other combination the firewall is
\* left as it is and the firewall on boot is enabled.
C23_ExitFirewallPolicy ==
    [][ExitPolicyApplied =>
         LET a == Head(cleanupStack)
             off == \/ ~a.isFirewallChecked
                    \/ /\ a.isFirewallChecked
                       /\ ~a.isFirewallAlwaysOn
                       /\ ~(a.isExitWithRestart /\ a.isLaunchOnStart)
         IN  /\ off => fw' = "off"
             /\ ~off => fw' = fw /\ firewallOnBoot']_vars

\* The policy has run and has left on a firewall that was on.
C23_Witness ==
    /\ teardown.fw = 1
    /\ fw = "conn"
    /\ firewallOnBoot
    /\ components = "deleted"

\* The connected event is handled and sendConnectStatus fails in it.
ConnectedWithHelperFailure == cm = "connecting" /\ cm' = "connected" /\ helperFails

\* C24: when sendConnectStatus fails in the handler of the connected event,
\* the split tunnelling warning is emitted and the connection is completed all
\* the same: the state becomes Connected, no disconnect is requested, and the
\* steps that follow in the handler (firewall rules of the connected state,
\* DNS of the connected state) run.
C24_HelperFailureNoRollback ==
    [][ConnectedWithHelperFailure =>
         /\ hist'.splitTunnelingFailed
         /\ state' = "Connected"
         /\ dns' = "conn"
         /\ fw' \in {"off", "conn"}
         /\ UNCHANGED <<queue, senderSource, cmLoc>>]_vars

\* A posted connectClickImpl is taken while the ConnectionManager is
\* disconnected, for a target that block-connect applies to: the slot tests
\* isBlockConnect_.
ConnectTakenBlockTested ==
    /\ queue # <<>>
    /\ Head(queue).op = "connectClickImpl"
    /\ queue' = Tail(queue)
    /\ cm = "idle"
    /\ ~isCustomConfigsLocation(Head(queue).loc)

\* C25: the commands take effect in the order of their submission: the
\* handling of a connect command sees the block-connect setting of the
\* setBlockConnect commands submitted before it, and of none submitted after
\* it.
C25_BlockConnectInOrder ==
    [][ConnectTakenBlockTested =>
         /\ isBlockConnect_ = Head(queue).block
         /\ Head(queue).block => cm' = "idle"
         /\ (~Head(queue).block /\ isExistSelectedNode(Head(queue).loc)) =>
                cm' = "connecting"]_vars

\* C26: startTunnelTests is issued only after the state has become Connected,
\* and the handling of a result of the tunnel tests changes no state, asks no
\* state change of the controller and issues neither a connect nor a
\* disconnect.
C26_TunnelTests ==
    [][/\ (tunnelTests' /\ ~tunnelTests) => state' = "Connected"
       /\ (tunnelTests /\ ~tunnelTests' /\ cm = "connected" /\ cm' = "connected") =>
             UNCHANGED <<state, stReason, stErr, lastSet, cmLoc, cmEmitAuth, queue,
                         senderSource, fw, dns>>]_vars

\* A posted connectClickImpl is taken and fails in doConnect with a location
\* error.
ConnectFailsOnLocation ==
    /\ queue # <<>>
    /\ Head(queue).op = "connectClickImpl"
    /\ queue' = Tail(queue)
    /\ hist'.locFailed

\* C27: a connect command that fails with LOCATION_NOT_EXIST or
\* LOCATION_NO_ACTIVE_NODES does not touch the firewall: it is on after the
\* failed command exactly when it was on before, also with the firewall
\* automatic and "before connection".
C27_LocationErrorKeepsFirewall ==
    [][ConnectFailsOnLocation => ((fw' = "off") <=> (fw = "off"))]_vars

\* The connected event is handled.
ConnectedHandled == cm = "connecting" /\ cm' = "connected"

\* C28: the handler of the connected event changes the on/off state of the
\* firewall in two cases only: automatic, firewall allowed after the
\* connection, "after connection", firewall off: it is turned on; automatic,
\* firewall not allowed after the connection, "before connection", firewall
\* on: it is turned off.  In every other combination of mode, timing, backend
\* and firewall state the on/off state stays.
C28_ConnectedFirewallTable ==
    [][ConnectedHandled =>
         LET allowed == ~hist'.notAllowedAfter
             turnOn == /\ fwMode = "automatic"
                       /\ allowed
                       /\ fwWhen = "after"
                       /\ fw = "off"
             turnOff == /\ fwMode = "automatic"
                        /\ ~allowed
                        /\ fwWhen = "before"
                        /\ fw # "off"
         IN  /\ turnOn => fw' # "off"
             /\ turnOff => fw' = "off"
             /\ (~turnOn /\ ~turnOff) => ((fw' = "off") <=> (fw = "off"))]_vars

\* The connected event of a backend that does not allow the firewall after the
\* connection has turned off the firewall that was turned on before the
\* connection.
C28_Witness ==
    /\ cm = "connected"
    /\ hist.notAllowedAfter
    /\ fwMode = "automatic"
    /\ fwWhen = "before"
    /\ firedBefore
    /\ fw = "off"
    /\ state = "Connected"
    /\ queue = <<>>

\* The Engine issues clickConnect: the ConnectionManager starts an attempt, and
\* not by itself on a continueWith... call.
ClickConnectIssued ==
    /\ cm = "idle"
    /\ cm' = "connecting"
    /\ ~(queue # <<>> /\ Head(queue).op = "continueWithImpl" /\ queue' = Tail(queue))

\* C29: with the firewall automatic and "before connection", the firewall is
\* on when the Engine issues clickConnect, on the path of the connect command,
\* of the reconnect and of the retry after the refetch of the credentials.
C29_FirewallOnBeforeConnect ==
    [][(ClickConnectIssued /\ fwMode = "automatic" /\ fwWhen = "before") =>
          fw' # "off"]_vars

\* C30: whenever the state is Disconnected, the firewall exceptions for the
\* connecting ip and the DNS servers are empty: the disconnected event, the
\* auth error, the private key password error and every other error of the
\* backend clear them on the way to Disconnected.
C30_ExceptionsClearedWhenDisconnected ==
    state = "Disconnected" => ~connectingIp

\* A disconnected event of the ConnectionManager has just been handled.
DisconnectedHandled == hist'.discReason # ""

\* C31: a disconnected event with no sender source refreshes the external IP,
\* and turns the firewall off exactly when the reason is by-user, the firewall
\* mode is automatic and the firewall is on; with the sender source of a
\* reconnect or of a sign-out that keeps the firewall, the firewall is not
\* turned off.
C31_DisconnectedFirewallOff ==
    [][DisconnectedHandled =>
         LET off == /\ hist'.discReason = "DISCONNECTED_BY_USER"
                    /\ fwMode = "automatic"
                    /\ fw # "off"
         IN  /\ hist'.discTag = "" =>
                    /\ hist'.gotIp
                    /\ off => fw' = "off"
                    /\ ~off => ((fw' = "off") <=> (fw = "off"))
             /\ hist'.discTag \in {"reconnect", "signOutImplKeepFirewallOn"} =>
                    (fw # "off" => fw' # "off")]_vars

C31_Witness ==
    /\ hist.discReason = "DISCONNECTED_BY_USER"
    /\ hist.discTag = ""
    /\ hist.gotIp
    /\ fwMode = "automatic"
    /\ fw = "off"
    /\ firedBefore
    /\ state = "Disconnected"

\* The AUTH_ERROR of a connection to an account location has just been handled.
AuthErrorOfAccount == hist'.err = "AUTH_ERROR" /\ ~isCustomConfigsLocation(cmLoc)

\* The serverCredentialsFetched signal has just been delivered to the slot.
CredentialsFetchedHandled == credsSub /\ fetching /\ ~fetching'

\* C32: the AUTH_ERROR of a connection to an account location leaves the
\* state as it is, restores what the connection changed and starts the
\* refetch with the slot subscribed; the serverCredentialsFetched signal then
\* removes the subscription and starts one attempt for the same location.
C32_AuthErrorRetry ==
    [][/\ AuthErrorOfAccount =>
            /\ state' = state
            /\ dns' = "disc"
            /\ ~connectingIp'
            /\ (fw' = "off") <=> (fw = "off")
            /\ credsSub'
            /\ fetching'
       /\ CredentialsFetchedHandled =>
            /\ ~credsSub'
            /\ cm' = "connecting"
            /\ cmLoc' = cmLoc
            /\ autoRetries' = autoRetries + 1]_vars

\* A posted continueWith...Impl has just handed its credentials to the
\* ConnectionManager.
CredentialsForwarded ==
    /\ queue # <<>>
    /\ Head(queue).op = "continueWithImpl"
    /\ hist'.fwd # ""

\* C33: the AUTH_ERROR of a custom config removes the stored username and
\* password and asks the user for them, PRIV_KEY_PASSWORD_ERROR removes the
\* stored private key password and asks for it, a request of the backend for a
\* credential that is not stored asks the user for it; the answer to a request
\* made after an error is handed on with needReconnect = true, the answer to a
\* request of the backend with needReconnect = false.
C33_CredentialRequests ==
    [][/\ (hist'.err = "AUTH_ERROR" /\ isCustomConfigsLocation(cmLoc)) =>
            /\ "username" \notin stored'
            /\ pendingUi' = "username"
       /\ hist'.err = "PRIV_KEY_PASSWORD_ERROR" =>
            /\ "privkey" \notin stored'
            /\ pendingUi' = "privkey"
       /\ CredentialsForwarded =>
            /\ Head(queue).ask = "error" => hist'.fwd = "T"
            /\ Head(queue).ask = "request" => hist'.fwd = "F"]_vars

\* The posted connectClickImpl has just been taken.
ConnectTaken ==
    /\ queue # <<>>
    /\ Head(queue).op = "connectClickImpl"
    /\ queue' = Tail(queue)

\* The settings an attempt gets that continues the connect command taken last:
\* its explicit settings, the settings of the network when it had none (and
\* for a custom config without a login).
SettingsOfCommand(cs) ==
    IF cs = ExplicitSettings /\ ~signedOut' THEN ExplicitSettings ELSE NetworkSettings

\* C34: the settings of a connect command are the settings of its attempt, of
\* the attempt made after the disconnect that the command asked for, and of the
\* retry after the refetch of the credentials; a disconnected event that makes
\* no reconnect resets the override, and the attempt of a connect command
\* without explicit settings gets the settings of the network.
C34_OverrideOneShot ==
    [][/\ (ConnectTaken /\ cm = "idle" /\ cm' = "connecting") =>
            cmSettings' = SettingsOfCommand(Head(queue).cs)
       /\ (ConnectTaken /\ Head(queue).cs = AutomaticSettings) =>
            /\ connectionSettingsOverride_' = AutomaticSettings
            /\ cm' = "connecting" => cmSettings' = NetworkSettings
       /\ (DisconnectedHandled /\ hist'.discTag = "reconnect" /\ cm' = "connecting") =>
            cmSettings' = SettingsOfCommand(hist.cs)
       /\ (CredentialsFetchedHandled /\ cm' = "connecting") =>
            cmSettings' = SettingsOfCommand(hist.cs)
       /\ (DisconnectedHandled /\ hist'.discTag # "reconnect") =>
            connectionSettingsOverride_' = AutomaticSettings]_vars

C34_Witness ==
    /\ hist.discReason = "DISCONNECTED_BY_USER"
    /\ hist.discTag = ""
    /\ hist.cs = ExplicitSettings
    /\ cmSettings = ExplicitSettings
    /\ connectionSettingsOverride_ = AutomaticSettings
    /\ state = "Disconnected"

\* The header overhead that the connected event subtracts.
ProtocolOverhead ==
    IF vpnAdapter.protocol = "wireguard"
    THEN IF extraConfig.wireguard.given THEN extraConfig.wireguard.offset ELSE MTU_OFFSET_WG
    ELSE IF extraConfig.ikev2.given THEN extraConfig.ikev2.offset ELSE MTU_OFFSET_IKEV2

\* C35: the connected event sets the MTU of the adapter exactly when the
\* protocol is IKEv2 or WireGuard, the packet size is not automatic and the mtu
\* less the overhead of the protocol is positive; it sets that difference, and
\* leaves the MTU of the adapter as it is in every other case.
C35_MtuOnConnected ==
    [][ConnectedHandled =>
         LET apply == /\ vpnAdapter.protocol \in {"ikev2", "wireguard"}
                      /\ ~packetSize_.isAutomatic
                      /\ packetSize_.mtu - ProtocolOverhead > 0
         IN  /\ apply => vpnAdapter'.mtu = packetSize_.mtu - ProtocolOverhead
             /\ ~apply => vpnAdapter'.mtu = vpnAdapter.mtu]_vars

C35_Witness ==
    /\ state = "Connected"
    /\ vpnAdapter.protocol = "wireguard"
    /\ extraConfig.wireguard = MtuOffset(60)
    /\ ~packetSize_.isAutomatic
    /\ packetSize_.mtu = 81
    /\ vpnAdapter.mtu = 21

\* C36: while the state is Disconnected, no port of a static IPs location is
\* whitelisted in the firewall, whichever way the connection ended.
C36_NoWhitelistWhenDisconnected ==
    state = "Disconnected" => whitelist = {}

\* C37: an update of the firewall's exceptions (host ips, ping ips of the
\* locations and of the custom configs, proxy ip, allow-LAN setting, connecting
\* ip and DNS servers, custom remote ip) never turns the firewall on when it is
\* off; when it is on, the rules of the current state are applied again.  The
\* connect command that brings a new custom remote ip turns the firewall on
\* only by its own rule (automatic, before connection).
ExceptionsUpdated ==
    \/ firewallExceptions_'.hostIPs # firewallExceptions_.hostIPs
    \/ firewallExceptions_'.locationsPingIps # firewallExceptions_.locationsPingIps
    \/ firewallExceptions_'.customConfigPingIps # firewallExceptions_.customConfigPingIps
    \/ firewallExceptions_'.proxyIP # firewallExceptions_.proxyIP
    \/ isAllowLanTraffic' # isAllowLanTraffic

ConnectingIpUpdated == connectingIp' /\ ~connectingIp

CustomRemoteIpUpdated == firewallExceptions_'.customRemoteIp # firewallExceptions_.customRemoteIp

C37_UpdateKeepsFirewallOff ==
    [][/\ ExceptionsUpdated =>
            /\ state' = state
            /\ fw' = IF fw = "off" THEN "off"
                     ELSE IF state = "Connected" THEN "conn" ELSE "pre"
       /\ ConnectingIpUpdated => (fw = "off" => fw' = "off")
       /\ CustomRemoteIpUpdated =>
            (fw = "off" /\ ~(fwMode = "automatic" /\ fwWhen = "before") => fw' = "off")]_vars

C37_Witness ==
    /\ fw = "off"
    /\ firewallExceptions_.hostIPs = {"ip1"}
    /\ firewallExceptions_.locationsPingIps = {"ip1"}
    /\ firewallExceptions_.customConfigPingIps = {"ip1"}
    /\ firewallExceptions_.proxyIP = "proxy1"
    /\ firewallExceptions_.customRemoteIp = "ip1"
    /\ isAllowLanTraffic
    /\ connectingIp
    /\ fwMode = "manual"
    /\ state = "Connected"

\* C38: in manual firewall mode no step of the connect, disconnect and
\* reconnect commands and no connected, disconnected, reconnecting or error
\* event changes whether the firewall is on; it changes only in the slot of a
\* firewallOn or firewallOff command and when a sign-out finishes.
FirewallCommandRun ==
    /\ queue # <<>>
    /\ Head(queue).op \in {"firewallOnImpl", "firewallOffImpl"}
    /\ queue' = Tail(queue)

SignOutFinished == hist'.nSignOutFinished = hist.nSignOutFinished + 1

C38_ManualModeFirewall ==
    [][fwMode = "manual" /\ ~FirewallCommandRun /\ ~SignOutFinished
           => ((fw' = "off") <=> (fw = "off"))]_vars

C38_Witness ==
    /\ fwMode = "manual"
    /\ fwWhen = "before"
    /\ fw = "conn"
    /\ state = "Connected"
    /\ hist.notAllowedAfter

\* C39: while the primary state is Connected, no step that changes the
\* emergency connection (its connected, disconnected and error events, its
\* commands, its teardown at a login) switches the DNS-server bookkeeping away
\* from the connected state (the proxy is enabled again by the same steps).
C39_EmergencyKeepsDnsConnected ==
    [][state = "Connected" /\ state' = "Connected" /\ emergency' # emergency
           => (dns = "conn" => dns' = "conn")]_vars

====
